---- MODULE Spec2Model ----
(***************************************************************************)
(* Model of the response-parsing and retry core of llm-ensemble:           *)
(*   - HuggingFaceInferenceClient.infer (infer/adapters/huggingface.py),   *)
(*     the retry/backoff loop around _post, _extract_text, parse_judgement *)
(*     and the construction of ModelJudgement;                             *)
(*   - parse_judgement / normalize_confidence (infer/domain/parser.py);    *)
(*   - JsonResponseParser.parse (infer/adapters/parsers/                   *)
(*     json_response_parser.py), the JSON score-field parser;              *)
(*   - OpenRouterAdapter.infer (infer/adapters/providers/                  *)
(*     openrouter_adapter.py), which assembles a ModelJudgement from the   *)
(*     parser's result for each example;                                   *)
(*   - get_response_parser (infer/adapters/response_parser_factory.py)     *)
(*     and JsonResponseParser.__init__;                                    *)
(*   - NdjsonJudgementWriter and NdjsonExampleReader (infer/adapters/io);  *)
(*   - InferenceService.run_inference (infer/domain/                       *)
(*     inference_service.py);                                              *)
(*   - iter_examples (ingest/adapters/llm_judge.py);                       *)
(*   - iter_judgements (infer/adapters/huggingface.py).                    *)
(*                                                                         *)
(* Texts are sequences of lexemes.  A lexeme is a run of characters that   *)
(* the regular expressions and json.loads of the source treat as a unit    *)
(* (a brace, a quoted key, one digit, a word, one whitespace character).   *)
(* Python values are tagged records so that values of different Python     *)
(* types never compare equal: IntV(1) # BoolV(1) although True == 1.       *)
(***************************************************************************)
EXTENDS Integers, Sequences, FiniteSets, TLC

VARIABLES
    pc,          \* control state of one infer call
    max_retries, \* self.max_retries
    example,     \* the example passed to infer: query_id, docid
    start_time,  \* local start_time
    retries,     \* local retries
    last_error,  \* local last_error
    attempt,     \* loop variable of "for attempt in range(max_retries + 1)"
    raw_text,    \* text extracted from the most recent provider response
    latency_ms,  \* local latency_ms of the most recent answered _post
    clock,       \* time.time(), in seconds
    calls,       \* number of self._post calls made so far
    events,      \* log of provider calls and time.sleep calls, in order
    returned,    \* the ModelJudgement returned by infer, or None
    raised,      \* the exception infer ended with, or None
    jtext,       \* input text of JsonResponseParser.parse
    jresult,     \* its return value, or NotRun when it has not returned
    jraised,     \* the exception that left parse, or None
    atext,       \* input text of parse_judgement
    aresult,     \* its return value or exception, or NotRun before the call
    aconf,       \* the value of normalize_confidence(score, label), or NotRun
    adapter_pc,          \* control state of one OpenRouterAdapter.infer call
    openrouter_model_id, \* model_config.openrouter_model_id, or None
    examples,            \* the examples passed to OpenRouterAdapter.infer
    responses,           \* what the API did for each example so far
    yielded,             \* the judgements the generator has yielded
    adapter_raised,      \* the exception that ended the generator, or None
    response_parser,     \* prompt_config.response_parser
    parser,              \* the JsonResponseParser constructed, or None
    factory_raised,      \* the exception get_response_parser raised, or None
    record_text,         \* the text of the record given to parser.parse
    record_result,       \* what parser.parse returned for it, or NotRun
    record_raised,       \* the exception that left parser.parse, or None
    file_handle,         \* NdjsonJudgementWriter._file_handle
    closed,              \* NdjsonJudgementWriter._closed
    output_file,         \* the lines of the file at output_path
    writer_calls,        \* the write and close calls made on the writer
    input_file,          \* the file at input_path: whether it exists, its lines
    limit,               \* the limit argument of NdjsonExampleReader.read
    reader_pc,           \* control state of one read call
    line_num,            \* the loop variable line_num
    read_examples,       \* the local list examples
    read_result,         \* what read returned, or NotRun
    read_raised,         \* the exception that left read, or None
    service_pc,          \* control state of one run_inference call
    count,               \* the local count
    error_count,         \* the local error_count
    total_latency_ms,    \* the local total_latency_ms
    written,             \* the judgements judgement_writer.write has taken
    writer_closed,       \* judgement_writer.close() was called
    stats,               \* the dictionary run_inference returned, or NotRun
    service_raised,      \* the exception that left run_inference, or None
    queries,             \* the keys of the dict read_queries returned
    docs,                \* the keys of the dict read_documents returned
    qrel_lines,          \* the lines of the qrels file
    ingest_pc,           \* control state of the generator iter_examples
    qrel_idx,            \* the next line read_qrels reads
    missing_q,           \* the local missing_q
    missing_d,           \* the local missing_d
    ingested,            \* the examples iter_examples has yielded
    printed,             \* the skip summary printed, or None
    ingest_raised,       \* the exception that ended the generator, or None
    stream_pc,           \* control state of the generator iter_judgements
    stream_examples,     \* the examples iter_judgements is given
    stream_idx,          \* how many of them the loop has taken
    stream_log,          \* provider calls and yields, with the example's index
    stream_raised        \* the exception that ended the generator, or None

vars == <<pc, max_retries, example, start_time, retries, last_error, attempt,
          raw_text, latency_ms, clock, calls, events, returned, raised,
          jtext, jresult, jraised, atext, aresult, aconf,
          adapter_pc, openrouter_model_id, examples, responses, yielded,
          adapter_raised, response_parser, parser, factory_raised,
          record_text, record_result, record_raised,
          file_handle, closed, output_file, writer_calls,
          input_file, limit, reader_pc, line_num, read_examples, read_result,
          read_raised,
          service_pc, count, error_count, total_latency_ms, written,
          writer_closed, stats, service_raised,
          queries, docs, qrel_lines, ingest_pc, qrel_idx, missing_q, missing_d,
          ingested, printed, ingest_raised,
          stream_pc, stream_examples, stream_idx, stream_log, stream_raised>>

retryVars == <<pc, max_retries, example, start_time, retries, last_error,
               attempt, raw_text, latency_ms, clock, calls, events, returned,
               raised>>

jsonVars == <<jtext, jresult, jraised>>

strategyVars == <<atext, aresult, aconf>>

adapterVars == <<adapter_pc, openrouter_model_id, examples, responses,
                 yielded, adapter_raised>>

factoryVars == <<response_parser, parser, factory_raised, record_text,
                 record_result, record_raised>>

writerVars == <<file_handle, closed, output_file, writer_calls>>

\* the variables of the file adapters, the service and the ingest step
readerVars == <<input_file, limit, reader_pc, line_num, read_examples,
                read_result, read_raised>>

serviceVars == <<service_pc, count, error_count, total_latency_ms, written,
                 writer_closed, stats, service_raised>>

ingestVars == <<queries, docs, qrel_lines, ingest_pc, qrel_idx, missing_q,
                missing_d, ingested, printed, ingest_raised>>

streamVars == <<stream_pc, stream_examples, stream_idx, stream_log,
                stream_raised>>

moreVars == <<writerVars, readerVars, serviceVars, ingestVars, streamVars>>

(***************************************************************************)
(* Bounds of the model.                                                    *)
(***************************************************************************)
MaxRetriesBound == 3   \* max_retries ranges over 0..MaxRetriesBound
MaxCallTime == 1       \* one _post takes 0..MaxCallTime seconds
MaxSegs == 3           \* a JSON-parser input is made of at most MaxSegs fragments
MaxWords == 4          \* a parse_judgement input has at most MaxWords lexemes
MaxExamples == 2       \* OpenRouterAdapter.infer gets at most MaxExamples examples
MaxWriterCalls == 4    \* at most MaxWriterCalls write and close calls on one writer
MaxLines == 3          \* the file read by NdjsonExampleReader has at most MaxLines lines
MaxLimit == 2          \* the limit argument is None or in 0..MaxLimit
MaxJudgements == 3     \* the provider yields at most MaxJudgements judgements
MaxQrels == 3          \* the qrels file has at most MaxQrels lines

(***************************************************************************)
(* Python values.                                                          *)
(***************************************************************************)
None == [k |-> "none"]
IntV(n) == [k |-> "int", n |-> n]
BoolV(n) == [k |-> "bool", b |-> n]
FloatV(i, f) == [k |-> "float", i |-> i, f |-> f]
StrV(s) == [k |-> "str", s |-> s]
\* a str held as its lexeme sequence
TextV(toks) == [k |-> "text", toks |-> toks]
\* a float held in hundredths
NumV(h) == [k |-> "num", h |-> h]
NotRun == [k |-> "notrun"]

RECURSIVE Pow2(_)
Pow2(n) == IF n = 0 THEN 1 ELSE 2 * Pow2(n - 1)

RECURSIVE SumPow2(_)
\* 2^0 + ... + 2^(k-1)
SumPow2(k) == IF k = 0 THEN 0 ELSE Pow2(k - 1) + SumPow2(k - 1)

(***************************************************************************)
(* Strategy A: parse_judgement on lexeme sequences.                        *)
(***************************************************************************)
IsSpace(t) == t \in {" ", "\n"}

\* str.lower() / re.IGNORECASE on one lexeme
Lower(t) ==
    CASE t = "LABEL:" -> "label:"
      [] t = "Label:" -> "label:"
      [] t = "REASONING:" -> "reasoning:"
      [] t = "Relevant" -> "relevant"
      [] t = "IRRELEVANT" -> "irrelevant"
      [] t = "Partially" -> "partially"
      [] OTHER -> t

RECURSIVE LStrip(_)
LStrip(s) == IF s # <<>> /\ IsSpace(Head(s)) THEN LStrip(Tail(s)) ELSE s

RECURSIVE RStrip(_)
RStrip(s) ==
    IF s # <<>> /\ IsSpace(s[Len(s)]) THEN RStrip(SubSeq(s, 1, Len(s) - 1))
    ELSE s

\* str.strip()
Strip(s) == RStrip(LStrip(s))

LabelWords == {"relevant", "partially", "irrelevant"}

\* position of the first lexeme at or after i that is not whitespace
RECURSIVE SkipSpace(_, _)
SkipSpace(s, i) ==
    IF i <= Len(s) /\ IsSpace(s[i]) THEN SkipSpace(s, i + 1) ELSE i

\* re.search(r"LABEL:\s*(relevant|partially|irrelevant)", s, re.IGNORECASE)
\* matches at i: the tag, any whitespace, a label word
LabelMatchAt(s, i) ==
    /\ Lower(s[i]) = "label:"
    /\ SkipSpace(s, i + 1) <= Len(s)
    /\ Lower(s[SkipSpace(s, i + 1)]) \in LabelWords

LabelMatches(s) == {i \in 1..Len(s) : LabelMatchAt(s, i)}

Min(S) == CHOOSE m \in S : \A n \in S : m <= n

\* the match object of the first match in Ms: found, group(1) and end()
FirstLabelMatch(s, Ms) ==
    IF Ms = {} THEN [found |-> FALSE, group |-> "", end |-> 0]
    ELSE [found |-> TRUE,
          group |-> s[SkipSpace(s, Min(Ms) + 1)],
          end |-> SkipSpace(s, Min(Ms) + 1)]

LabelSearch(s) == FirstLabelMatch(s, LabelMatches(s))

\* re.search(r"REASONING:\s*(.+)", s, re.IGNORECASE | re.DOTALL): the tag
\* and at least one character after it
ReasoningMatches(s) ==
    {i \in 1..Len(s) : Lower(s[i]) = "reasoning:" /\ i < Len(s)}

FirstReasoningMatch(s, Ms) ==
    IF Ms = {} THEN [found |-> FALSE, group |-> <<>>]
    ELSE [found |-> TRUE, group |-> LStrip(SubSeq(s, Min(Ms) + 1, Len(s)))]

ReasoningSearch(s) == FirstReasoningMatch(s, ReasoningMatches(s))

\* "kw" in text_lower, for the keywords the fallback looks for
Contains(s, kw) ==
    \E i \in 1..Len(s) :
        CASE kw = "relevant" -> Lower(s[i]) \in {"relevant", "irrelevant"}
          [] kw = "irrelevant" -> Lower(s[i]) = "irrelevant"
          [] kw = "partially" -> Lower(s[i]) = "partially"
          [] kw = "partial" -> Lower(s[i]) \in {"partial", "partially"}
          [] OTHER -> FALSE

\* mutant: the scores of relevant and irrelevant are exchanged
score_map_swapped(label) ==
    CASE label = "relevant" -> 10
      [] label = "partially" -> 50
      [] label = "irrelevant" -> 90

\* score_map, in hundredths
score_map(label) ==
    CASE label = "relevant" -> 90
      [] label = "partially" -> 50
      [] label = "irrelevant" -> 10

ValueError(msg, arg) == [type |-> "ValueError", msg |-> msg, arg |-> arg]

\* mutant: "partial" alone is enough for the label "partially"
KeywordLabelPartialFirst(rel, irr, part) ==
    IF part /\ ~irr THEN
        [raised |-> FALSE, label |-> "partially",
         warnings |-> <<"Fallback: extracted 'partially' from unstructured text">>]
    ELSE IF rel /\ ~irr THEN
        [raised |-> FALSE, label |-> "relevant",
         warnings |-> <<"Fallback: extracted 'relevant' from unstructured text">>]
    ELSE IF irr THEN
        [raised |-> FALSE, label |-> "irrelevant",
         warnings |-> <<"Fallback: extracted 'irrelevant' from unstructured text">>]
    ELSE
        [raised |-> TRUE, label |-> "", warnings |-> <<>>]

\* the keyword fallback, entered when the LABEL pattern did not match;
\* rel, irr, part: whether the lowercased text holds "relevant",
\* "irrelevant", "partially" or "partial"
KeywordLabel(rel, irr, part) ==
    IF rel /\ ~irr THEN
        IF part THEN
            [raised |-> FALSE, label |-> "partially",
             warnings |-> <<"Fallback: extracted 'partially' from unstructured text">>]
        ELSE
            [raised |-> FALSE, label |-> "relevant",
             warnings |-> <<"Fallback: extracted 'relevant' from unstructured text">>]
    ELSE IF irr THEN
        [raised |-> FALSE, label |-> "irrelevant",
         warnings |-> <<"Fallback: extracted 'irrelevant' from unstructured text">>]
    ELSE
        [raised |-> TRUE, label |-> "", warnings |-> <<>>]

\* the label step of parse_judgement, m the match of the LABEL pattern:
\* the label and the warnings appended, or raised
ExtractLabel(text, m) ==
    IF ~m.found THEN
        KeywordLabel(Contains(text, "relevant"), Contains(text, "irrelevant"),
                     Contains(text, "partially") \/ Contains(text, "partial"))
    ELSE [raised |-> FALSE, label |-> Lower(m.group), warnings |-> <<>>]

\* mutant: the fallback warning is appended for an empty rest as well
RestRationaleAlwaysWarned(rest, warnings) ==
    [rationale |-> TextV(rest),
     warnings |-> Append(warnings, "Fallback: used text after label as rationale")]

\* the fallback rationale: the text after the matched label
RestRationale(rest, warnings) ==
    [rationale |-> TextV(rest),
     warnings |-> IF rest # <<>>
                  THEN Append(warnings, "Fallback: used text after label as rationale")
                  ELSE warnings]

\* mutant: a missing rationale is not reported
ExtractRationaleSilent(text, m, r, warnings) ==
    IF r.found THEN [rationale |-> TextV(Strip(r.group)), warnings |-> warnings]
    ELSE IF m.found THEN
        RestRationale(Strip(SubSeq(text, m.end + 1, Len(text))), warnings)
    ELSE [rationale |-> None, warnings |-> warnings]

\* the rationale step of parse_judgement, m and r the matches of the LABEL
\* and the REASONING pattern
ExtractRationale(text, m, r, warnings) ==
    IF r.found THEN [rationale |-> TextV(Strip(r.group)), warnings |-> warnings]
    ELSE IF m.found THEN
        RestRationale(Strip(SubSeq(text, m.end + 1, Len(text))), warnings)
    ELSE [rationale |-> None,
          warnings |-> Append(warnings, "No rationale found in output")]

\* the return value of parse_judgement
ParsedJudgement(label, rw) ==
    [raised |-> FALSE, label |-> label, score |-> score_map(label),
     rationale |-> rw.rationale, warnings |-> rw.warnings]

\* parse_judgement after the label step, l its outcome
ParseLabelled(text, m, r, l) ==
    IF l.raised THEN
        [raised |-> TRUE,
         error |-> ValueError("Could not extract valid label from output", text)]
    ELSE ParsedJudgement(l.label, ExtractRationale(text, m, r, l.warnings))

\* parse_judgement after the two searches
ParseMatched(text, m, r) == ParseLabelled(text, m, r, ExtractLabel(text, m))

\* parse_judgement after raw_text.strip()
ParseStripped(text) ==
    ParseMatched(text, LabelSearch(text), ReasoningSearch(text))

parse_judgement(raw) == ParseStripped(Strip(raw))

\* mutant: the confidence is the score for every label
normalize_confidence_passthrough(score, label) == score

\* normalize_confidence, in hundredths
normalize_confidence(score, label) ==
    IF label = "partially" THEN (score * 8) \div 10 ELSE score

(***************************************************************************)
(* ModelJudgement: the pydantic model validates its fields on construction *)
(* and raises ValidationError when one is not permitted.                   *)
(***************************************************************************)
\* label: Optional[Literal[0, 1, 2]]
LabelLiteral == {IntV(0), IntV(1), IntV(2)}

LabelFieldOk(label) == label \in {None} \cup LabelLiteral

\* score: Optional[float], ge=0.0, le=2.0
ScoreFieldOk(score) == score = None \/ (score.h >= 0 /\ score.h <= 200)

\* confidence: Optional[float], ge=0.0, le=1.0
ConfidenceFieldOk(c) == c = None \/ (c.h >= 0 /\ c.h <= 100)

ValidationError(field) ==
    [type |-> "ValidationError", msg |-> field, arg |-> <<>>]

ModelJudgement(f) ==
    IF ~LabelFieldOk(f.label) THEN
        [raised |-> TRUE, error |-> ValidationError("label")]
    ELSE IF ~ScoreFieldOk(f.score) THEN
        [raised |-> TRUE, error |-> ValidationError("score")]
    ELSE IF ~ConfidenceFieldOk(f.confidence) THEN
        [raised |-> TRUE, error |-> ValidationError("confidence")]
    ELSE [raised |-> FALSE, judgement |-> f]

(***************************************************************************)
(* HuggingFaceInferenceClient.infer                                        *)
(***************************************************************************)
DefaultMaxRetries == 3

\* the (query, document) pairs infer may be called for
Examples == {[query_id |-> "q1", docid |-> "d1"],
             [query_id |-> "q2", docid |-> "d2"]}

\* texts the endpoint may generate
TaggedText == <<"LABEL:", " ", "relevant", "\n", "REASONING:", " ", "it", " ", "matches">>
KeywordText == <<"partially", " ", "relevant">>
NoSignalText == <<"I", " ", "cannot", " ", "judge">>

RawTexts == {TaggedText, KeywordText, NoSignalText}

\* what one self._post call does: raise, or return a response
PostOutcomes ==
    {[kind |-> "http_error"], [kind |-> "no_text"]}
    \cup {[kind |-> "text", text |-> t] : t \in RawTexts}

RuntimeError(msg) == [type |-> "RuntimeError", msg |-> msg, arg |-> <<>>]

\* _post raises on a status code other than 200
PostError(o) == RuntimeError("HuggingFace API error")

\* the try block after ModelJudgement(...) was evaluated with outcome j
AfterBuild(text, lat, j) ==
    IF j.raised THEN
        [raised |-> TRUE, latency_ms |-> lat, raw_text |-> TextV(text),
         error |-> j.error]
    ELSE
        [raised |-> FALSE, latency_ms |-> lat, raw_text |-> TextV(text),
         judgement |-> j.judgement]

\* mutant: a ValueError of parse_judgement becomes a judgement without label
AfterParseSoft(text, lat, p) ==
    [raised |-> FALSE, latency_ms |-> lat, raw_text |-> TextV(text),
     judgement |-> [model_id |-> "phi3-mini", provider |-> "hf",
                    version |-> None,
                    query_id |-> example.query_id, docid |-> example.docid,
                    label |-> None, score |-> None, confidence |-> None,
                    rationale |-> None, raw_text |-> TextV(text),
                    latency_ms |-> lat, retries |-> retries,
                    warnings |-> IF p.raised THEN <<p.error.msg>> ELSE <<>>]]

\* the try block after parse_judgement(raw_text) was evaluated with outcome p
AfterParse(text, lat, p) ==
    IF p.raised THEN
        [raised |-> TRUE, latency_ms |-> lat, raw_text |-> TextV(text),
         error |-> p.error]
    ELSE
        AfterBuild(text, lat,
            ModelJudgement(
                [model_id |-> "phi3-mini", provider |-> "hf",
                 version |-> None,
                 query_id |-> example.query_id,
                 docid |-> example.docid,
                 label |-> StrV(p.label),
                 score |-> NumV(p.score),
                 confidence |-> NumV(normalize_confidence(p.score, p.label)),
                 rationale |-> p.rationale,
                 raw_text |-> TextV(text),
                 latency_ms |-> lat,
                 retries |-> retries,
                 warnings |-> p.warnings]))

\* the statements of the try block after self._post returned; lat is
\* latency_ms
AfterPost(o, lat) ==
    IF o.kind = "no_text" THEN
        \* _extract_text raises
        [raised |-> TRUE, latency_ms |-> lat, raw_text |-> raw_text,
         error |-> ValueError("Could not extract text from response", <<>>)]
    ELSE AfterParse(o.text, lat, parse_judgement(o.text))

\* the try block of one loop iteration; the call returns d seconds after
\* it was made
TryBlock(o, d) ==
    IF o.kind = "http_error" THEN
        [raised |-> TRUE, latency_ms |-> latency_ms, raw_text |-> raw_text,
         error |-> PostError(o)]
    ELSE AfterPost(o, (clock + d - start_time) * 1000)

\* mutant: one retry too many
MayRetryOffByOne(n, m) == n <= m

\* "if attempt < self.max_retries" of the except block
MayRetry(n, m) == n < m

\* mutant: linear instead of exponential backoff
wait_time_linear(n) == n + 1

\* wait_time = 2 ** attempt
wait_time(n) == Pow2(n)

\* mutant: the exhaustion error without the underlying error
ExhaustedNoCause(n, ex, err) ==
    [type |-> "RuntimeError", msg |-> "Inference failed after retries",
     retries |-> n, query_id |-> ex.query_id, docid |-> ex.docid,
     last_error |-> None]

\* mutant: the exhaustion error reports one retry less
ExhaustedOneLess(n, ex, err) ==
    [type |-> "RuntimeError", msg |-> "Inference failed after retries",
     retries |-> n - 1, query_id |-> ex.query_id, docid |-> ex.docid,
     last_error |-> err]

\* the RuntimeError raised after the loop
Exhausted(n, ex, err) ==
    [type |-> "RuntimeError", msg |-> "Inference failed after retries",
     retries |-> n, query_id |-> ex.query_id, docid |-> ex.docid,
     last_error |-> err]

\* mutant: the retry repeats the attempt number
SameAttempt(n) == n

\* the loop variable of the next iteration of range(self.max_retries + 1)
NextAttempt(n) == n + 1

\* log entry of one self._post call: the attempt number, when it was made,
\* what the provider did and the exception the iteration ended with, or None
CallEvent(n, at, got, err) ==
    [ev |-> "call", n |-> n, at |-> at, got |-> got, err |-> err]

\* log entry of one time.sleep(w) call made at time at
SleepEvent(w, at) == [ev |-> "sleep", n |-> w, at |-> at]

RetryInit ==
    /\ pc = "Pending"
    /\ max_retries \in 0..MaxRetriesBound
    /\ example \in Examples
    /\ start_time = 0
    /\ retries = 0
    /\ last_error = None
    /\ attempt = 0
    /\ raw_text = None
    /\ latency_ms = 0
    /\ clock = 3
    /\ calls = 0
    /\ events = <<>>
    /\ returned = None
    /\ raised = None

\* infer up to the loop: start_time, retries and last_error are set
BeginStep ==
    /\ pc' = "Attempting"
    /\ start_time' = clock
    /\ retries' = 0
    /\ last_error' = None
    /\ attempt' = 0

Begin ==
    /\ pc = "Pending"
    /\ BeginStep
    /\ UNCHANGED <<max_retries, example, raw_text, latency_ms, clock, calls,
                   events, returned, raised, jsonVars, strategyVars, adapterVars,
                   factoryVars, moreVars>>

\* mutant: a failed attempt is not counted
ExceptNoCount(o, r, d) ==
    /\ last_error' = r.error
    /\ retries' = retries
    /\ returned' = returned
    /\ IF MayRetry(attempt, max_retries) THEN
           /\ events' = events \o
                  <<CallEvent(attempt, clock, o, r.error),
                    SleepEvent(wait_time(attempt), clock + d)>>
           /\ clock' = clock + d + wait_time(attempt)
           /\ attempt' = NextAttempt(attempt)
           /\ pc' = "Attempting"
           /\ raised' = raised
       ELSE
           /\ events' = Append(events, CallEvent(attempt, clock, o, r.error))
           /\ clock' = clock + d
           /\ attempt' = attempt
           /\ pc' = "ExhaustedFailure"
           /\ raised' = Exhausted(retries + 1, example, r.error)

\* the except block and what follows it: count the failure, then sleep
\* and go on to the next iteration, or leave the loop and raise
Except(o, r, d) ==
    /\ last_error' = r.error
    /\ retries' = retries + 1
    /\ returned' = returned
    /\ IF MayRetry(attempt, max_retries) THEN
           /\ events' = events \o
                  <<CallEvent(attempt, clock, o, r.error),
                    SleepEvent(wait_time(attempt), clock + d)>>
           /\ clock' = clock + d + wait_time(attempt)
           /\ attempt' = NextAttempt(attempt)
           /\ pc' = "Attempting"
           /\ raised' = raised
       ELSE
           /\ events' = Append(events, CallEvent(attempt, clock, o, r.error))
           /\ clock' = clock + d
           /\ attempt' = attempt
           /\ pc' = "ExhaustedFailure"
           /\ raised' = Exhausted(retries + 1, example, r.error)

\* the return statement of the try block
Return(o, r, d) ==
    /\ returned' = r.judgement
    /\ pc' = "Success"
    /\ events' = Append(events, CallEvent(attempt, clock, o, None))
    /\ clock' = clock + d
    /\ UNCHANGED <<last_error, retries, attempt, raised>>

\* one iteration of "for attempt in range(self.max_retries + 1)"
AttemptStep ==
    \E o \in PostOutcomes, d \in 0..MaxCallTime :
        \E r \in {TryBlock(o, d)} :
          /\ calls' = calls + 1
          /\ raw_text' = r.raw_text
          /\ latency_ms' = r.latency_ms
          /\ IF r.raised THEN Except(o, r, d) ELSE Return(o, r, d)

Attempt ==
    /\ pc = "Attempting"
    /\ AttemptStep
    /\ UNCHANGED <<max_retries, example, start_time, jsonVars, strategyVars, adapterVars,
                   factoryVars, moreVars>>

(***************************************************************************)
(* JsonResponseParser.parse (and its copy parse_thomas_response).          *)
(***************************************************************************)
\* self.score_field, by default "O"
score_field == "O"

\* the characters "<field>" of the extraction pattern
KeyLexeme(field) == "\"" \o field \o "\""

DigitLexemes == {"0", "1", "2", "3", "4", "5", "6", "7", "8", "9"}

\* one lexeme for a run of 4301 digits 1: more digits than int() converts
\* (sys.int_info.default_max_str_digits is 4300)
LongDigits == "1{4301}"

\* \d
IsDigit(t) == t \in DigitLexemes \cup {LongDigits}

\* the number of digits in a run of digit lexemes
RECURSIVE DigitCount(_)
DigitCount(ds) ==
    IF ds = <<>> THEN 0
    ELSE (IF Head(ds) = LongDigits THEN 4301 ELSE 1) + DigitCount(Tail(ds))

\* the integer literal has more digits than int() converts
ExceedsIntLimit(ds) == DigitCount(ds) > 4300

DigitVal(t) ==
    CASE t = "0" -> 0 [] t = "1" -> 1 [] t = "2" -> 2 [] t = "3" -> 3
      [] t = "4" -> 4 [] t = "5" -> 5 [] t = "6" -> 6 [] t = "7" -> 7
      [] t = "8" -> 8 [] t = "9" -> 9

\* a JSON string: a quoted run of characters
StringLexemes == {"\"O\"", "\"M\"", "\"T\"", "\"1\""}

IsString(t) == t \in StringLexemes

\* position of the first "}" at or after j, 0 when there is none
RECURSIVE NextClose(_, _)
NextClose(s, j) ==
    IF j > Len(s) THEN 0
    ELSE IF s[j] = "}" THEN j
    ELSE NextClose(s, j + 1)

\* "<field>"\s*:\s*\d+ matches at k, c the place where the colon must be
ColonDigitAt(s, c) ==
    /\ c <= Len(s)
    /\ s[c] = ":"
    /\ SkipSpace(s, c + 1) <= Len(s)
    /\ IsDigit(s[SkipSpace(s, c + 1)])

\* mutant: the pattern accepts any key in front of the digits
FieldDigitAtAnyKey(s, k, field) ==
    IsString(s[k]) /\ ColonDigitAt(s, SkipSpace(s, k + 1))

FieldDigitAt(s, k, field) ==
    s[k] = KeyLexeme(field) /\ ColonDigitAt(s, SkipSpace(s, k + 1))

\* \{[^}]*"<field>"\s*:\s*\d+[^}]*\} matches from i to the first "}" at e
PatternBetween(s, i, e, field) ==
    e # 0 /\ \E k \in (i + 1)..(e - 1) : FieldDigitAt(s, k, field)

PatternAt(s, i, field) ==
    s[i] = "{" /\ PatternBetween(s, i, NextClose(s, i + 1), field)

PatternMatches(s, field) == {i \in 1..Len(s) : PatternAt(s, i, field)}

Max(S) == CHOOSE m \in S : \A n \in S : m >= n

\* mutant: the rightmost match is taken
LastPatternMatch(s, Ms) ==
    IF Ms = {} THEN [found |-> FALSE, group |-> <<>>]
    ELSE [found |-> TRUE,
          group |-> SubSeq(s, Max(Ms), NextClose(s, Max(Ms) + 1))]

\* the match object of the leftmost match in Ms: found and group(0)
FirstPatternMatch(s, Ms) ==
    IF Ms = {} THEN [found |-> FALSE, group |-> <<>>]
    ELSE [found |-> TRUE,
          group |-> SubSeq(s, Min(Ms), NextClose(s, Min(Ms) + 1))]

\* re.search(json_pattern, raw_text)
JsonSearch(s, field) == FirstPatternMatch(s, PatternMatches(s, field))

\* last position of the run of digits that starts at i
RECURSIVE DigitsEnd(_, _)
DigitsEnd(s, i) ==
    IF i + 1 <= Len(s) /\ IsDigit(s[i + 1]) THEN DigitsEnd(s, i + 1) ELSE i

\* int() of a run of digits
RECURSIVE ToInt(_)
ToInt(ds) ==
    IF ds = <<>> THEN 0
    ELSE 10 * ToInt(SubSeq(ds, 1, Len(ds) - 1)) + DigitVal(ds[Len(ds)])

\* what stands for the value of an integer literal that int() refuses
IntLimitExceeded == [k |-> "limit"]

\* the JSON number grammar (0|[1-9]\d*)(\.\d+)? at i: a leading 0 stands
\* alone; ie is the end of the integer part
NumberFrom(s, i, ie) ==
    IF ie + 2 <= Len(s) /\ s[ie + 1] = "." /\ IsDigit(s[ie + 2]) THEN
        [val |-> FloatV(IF ExceedsIntLimit(SubSeq(s, i, ie)) THEN "inf"
                        ELSE ToInt(SubSeq(s, i, ie)),
                        SubSeq(s, ie + 2, DigitsEnd(s, ie + 2))),
         next |-> DigitsEnd(s, ie + 2) + 1]
    ELSE IF ExceedsIntLimit(SubSeq(s, i, ie)) THEN
        \* int() raises ValueError
        [val |-> IntLimitExceeded, next |-> ie + 1]
    ELSE [val |-> IntV(ToInt(SubSeq(s, i, ie))), next |-> ie + 1]

NumberAt(s, i) == NumberFrom(s, i, IF s[i] = "0" THEN i ELSE DigitsEnd(s, i))

\* the JSON literals and strings
LiteralVal(t) ==
    CASE t = "true" -> BoolV(TRUE)
      [] t = "false" -> BoolV(FALSE)
      [] t = "null" -> None
      [] OTHER -> StrV(t)

IsLiteral(t) == t \in {"true", "false", "null"} \/ IsString(t)

\* json.loads raised JSONDecodeError
JsonFail == [ok |-> FALSE, raised |-> FALSE, pairs |-> <<>>]

\* json.loads raised the ValueError of int(): it is not a JSONDecodeError
JsonIntLimit == [ok |-> FALSE, raised |-> TRUE, pairs |-> <<>>]

\* json.loads of one object: the decoder at position i in state st
\* ("first", "key", "colon", "value", "next"), key the pending key and
\* pairs the members read so far
RECURSIVE ScanObject(_, _, _, _, _)
ScanObject(s, i, st, key, pairs) ==
    IF i > Len(s) THEN JsonFail
    ELSE IF IsSpace(s[i]) THEN ScanObject(s, i + 1, st, key, pairs)
    ELSE IF st \in {"first", "next"} /\ s[i] = "}" THEN
        IF i = Len(s) THEN [ok |-> TRUE, raised |-> FALSE, pairs |-> pairs]
        ELSE JsonFail
    ELSE IF st \in {"first", "key"} THEN
        IF IsString(s[i]) THEN ScanObject(s, i + 1, "colon", s[i], pairs)
        ELSE JsonFail
    ELSE IF st = "colon" THEN
        IF s[i] = ":" THEN ScanObject(s, i + 1, "value", key, pairs)
        ELSE JsonFail
    ELSE IF st = "value" THEN
        IF IsDigit(s[i]) THEN
            IF NumberAt(s, i).val = IntLimitExceeded THEN JsonIntLimit
            ELSE ScanObject(s, NumberAt(s, i).next, "next", key,
                            Append(pairs, <<key, NumberAt(s, i).val>>))
        ELSE IF IsLiteral(s[i]) THEN
            ScanObject(s, i + 1, "next", key,
                       Append(pairs, <<key, LiteralVal(s[i])>>))
        ELSE JsonFail
    ELSE
        IF s[i] = "," THEN ScanObject(s, i + 1, "key", key, pairs)
        ELSE JsonFail

\* json.loads(json_str) for a text that starts with "{"
json_loads(s) ==
    IF s # <<>> /\ s[1] = "{" THEN ScanObject(s, 2, "first", "", <<>>)
    ELSE JsonFail

\* data.get(key): the value of the last member with that key (a later
\* duplicate replaces an earlier one), None when there is none
DictGet(pairs, key) ==
    IF \E i \in 1..Len(pairs) : pairs[i][1] = key
    THEN pairs[CHOOSE i \in 1..Len(pairs) :
                  /\ pairs[i][1] = key
                  /\ \A j \in 1..Len(pairs) : pairs[j][1] = key => j <= i][2]
    ELSE None

Warning(msg, detail) == [msg |-> msg, detail |-> detail]

NoJsonWarning(field) ==
    Warning("No JSON object with '" \o field \o "' field found in response", None)

\* mutant: the label 0 is taken for a missing score
ScoreAcceptedNonZero(score) ==
    \/ score.k = "int" /\ score.n \in {1, 2}
    \/ score.k = "bool"

\* isinstance(score, int) and score in [0, 1, 2]: bool is a subclass of int
\* and True == 1, False == 0
ScoreAccepted(score) ==
    \/ score.k = "int" /\ score.n \in {0, 1, 2}
    \/ score.k = "bool"

\* parse after data.get(self.score_field)
ParseScore(field, score) ==
    IF score = None THEN
        [raised |-> FALSE, label |-> None,
         warnings |-> <<Warning("Missing '" \o field \o "' field in parsed JSON", None)>>]
    ELSE IF ~ScoreAccepted(score) THEN
        [raised |-> FALSE, label |-> None,
         warnings |-> <<Warning("Invalid " \o field \o " score (expected 0, 1, or 2)", score)>>]
    ELSE [raised |-> FALSE, label |-> score, warnings |-> <<>>]

\* parse after json.loads
ParseLoaded(field, data) ==
    IF data.raised THEN
        \* "except json.JSONDecodeError" does not catch it
        [raised |-> TRUE,
         error |-> ValueError("Exceeds the limit (4300 digits) for integer string conversion", <<>>)]
    ELSE IF ~data.ok THEN
        [raised |-> FALSE, label |-> None,
         warnings |-> <<Warning("Failed to parse JSON", None)>>]
    ELSE ParseScore(field, DictGet(data.pairs, KeyLexeme(field)))

\* parse after re.search
ParseMatch(field, m) ==
    IF ~m.found THEN
        [raised |-> FALSE, label |-> None, warnings |-> <<NoJsonWarning(field)>>]
    ELSE ParseLoaded(field, json_loads(m.group))

\* score fields that make json_pattern an invalid regular expression
\* (re.error: missing ), unterminated subpattern)
PatternCompiles(field) == field \notin {"("}

\* JsonResponseParser.parse
JsonParse(field, raw) ==
    IF ~PatternCompiles(field) THEN
        [raised |-> TRUE,
         error |-> [type |-> "re.error", msg |-> "missing ), unterminated subpattern",
                    arg |-> <<>>]]
    ELSE ParseMatch(field, JsonSearch(raw, field))

\* parse_thomas_response: the same code with the field "O" written out
parse_thomas_response(raw) == JsonParse("O", raw)

(***************************************************************************)
(* Input texts of the JSON parser: up to MaxSegs fragments, each a piece   *)
(* of prose, a stray brace or an object.                                   *)
(***************************************************************************)
Member(key, val) == <<KeyLexeme(key), ":", " ">> \o val

Obj1(m) == <<"{">> \o m \o <<"}">>

Obj2(m1, m2) == <<"{">> \o m1 \o <<",", " ">> \o m2 \o <<"}">>

\* {"O": n} and {"M": 1, "T": 2, "O": n}
BareObject(n) == Obj1(Member("O", <<n>>))

MultiAspectObject(n) ==
    <<"{">> \o Member("M", <<"1">>) \o <<",", " ">> \o Member("T", <<"2">>)
           \o <<",", " ">> \o Member("O", <<n>>) \o <<"}">>

Fragments ==
    { <<"abc">>, <<" ">>, <<"{">>, <<"}">>,
      BareObject("0"), <<"{", "\"O\"", ":", "1", "}">>, BareObject("2"),
      MultiAspectObject("1"),
      Obj2(Member("M", <<"1">>), Member("T", <<"2">>)),
      BareObject("5"),
      Obj1(Member("O", <<"1", "2">>)),
      Obj1(Member("O", <<"2", ".", "0">>)),
      Obj1(Member("O", <<"0", "1">>)),
      BareObject("\"1\""),
      BareObject("true"),
      Obj2(Member("O", <<"1">>), Member("O", <<"true">>)),
      Obj2(Member("O", <<"1">>), Member("O", <<"null">>)),
      BareObject(LongDigits) }

RECURSIVE Concat(_)
Concat(fs) == IF fs = <<>> THEN <<>> ELSE Head(fs) \o Concat(Tail(fs))

JsonTexts ==
    {Concat(fs) : fs \in UNION {[1..n -> Fragments] : n \in 0..MaxSegs}}

RetryIdle ==
    /\ pc = "Idle"
    /\ max_retries = DefaultMaxRetries
    /\ example \in {[query_id |-> "q1", docid |-> "d1"]}
    /\ start_time = 0
    /\ retries = 0
    /\ last_error = None
    /\ attempt = 0
    /\ raw_text = None
    /\ latency_ms = 0
    /\ clock = 0
    /\ calls = 0
    /\ events = <<>>
    /\ returned = None
    /\ raised = None

JsonIdle == jtext = <<>> /\ jresult = NotRun /\ jraised = None

JsonInit == jtext \in JsonTexts /\ jresult = NotRun /\ jraised = None

\* one call parser.parse(raw_text): it returns (label, warnings) or an
\* exception leaves it
Parse ==
    /\ jresult = NotRun
    /\ jraised = None
    /\ \E r \in {JsonParse(score_field, jtext)} :
          IF r.raised THEN jraised' = r.error /\ jresult' = jresult
          ELSE /\ jresult' = [label |-> r.label, warnings |-> r.warnings]
               /\ jraised' = jraised
    /\ UNCHANGED <<jtext, retryVars, strategyVars, adapterVars, factoryVars,
                   moreVars>>

(***************************************************************************)
(* Input texts of parse_judgement: up to MaxWords lexemes.                 *)
(***************************************************************************)
StrategyLexemes ==
    {"LABEL:", "label:", "REASONING:", " ", "relevant", "IRRELEVANT",
     "partially", "partial", "it"}

StrategyTexts == UNION {[1..n -> StrategyLexemes] : n \in 0..MaxWords}

StrategyIdle == atext = <<>> /\ aresult = NotRun /\ aconf = NotRun

StrategyInit == atext \in StrategyTexts /\ aresult = NotRun /\ aconf = NotRun

\* one call parse_judgement(raw_text)
ParseJudgement ==
    /\ aresult = NotRun
    /\ aresult' = parse_judgement(atext)
    /\ UNCHANGED <<atext, aconf, retryVars, jsonVars, adapterVars,
                   factoryVars, moreVars>>

\* the call normalize_confidence(score, label) that follows a
\* parse_judgement that returned
NormalizeConfidence ==
    /\ aresult # NotRun
    /\ ~aresult.raised
    /\ aconf = NotRun
    /\ aconf' = NumV(normalize_confidence(aresult.score, aresult.label))
    /\ UNCHANGED <<atext, aresult, retryVars, jsonVars, adapterVars,
                   factoryVars, moreVars>>

(***************************************************************************)
(* OpenRouterAdapter.infer: one API call per example, the injected         *)
(* JsonResponseParser and the construction of ModelJudgement.              *)
(***************************************************************************)
ExampleLists == UNION {[1..n -> Examples] : n \in 0..MaxExamples}

\* the texts the model may answer with
AdapterTexts ==
    { BareObject("2"), BareObject("0"), MultiAspectObject("1"),
      <<"abc">>, <<"abc">> \o BareObject("1") \o <<"abc">>,
      Obj2(Member("M", <<"1">>), Member("T", <<"2">>)),
      BareObject("5"), <<"{">> \o BareObject("1"),
      BareObject("true"),
      Obj2(Member("O", <<"1">>), Member("O", <<"null">>)),
      BareObject(LongDigits) }

\* what client.chat.completions.create does: raise, or return a response
\* with the content None or a text
ApiResponses ==
    {[kind |-> "api_error"], [kind |-> "no_content"]}
    \cup {[kind |-> "content", text |-> t, model |-> StrV("gpt-oss-20b")] :
             t \in AdapterTexts}

\* float(label)
float(label) ==
    IF label.k = "bool" THEN NumV(IF label.b THEN 100 ELSE 0)
    ELSE NumV(100 * label.n)

\* mutant: the score is taken for a confidence in [0,1]
LabelScoreHalved(label) ==
    IF label # None THEN NumV(float(label).h \div 2) ELSE None

\* score=float(label) if label is not None else None
LabelScore(label) == IF label # None THEN float(label) ELSE None

\* mutant: the warnings of the parser are not carried over
JudgementFieldsNoWarnings(ex, mid, resp, lat, p) ==
    [model_id |-> mid, provider |-> "openrouter", version |-> resp.model,
     query_id |-> ex.query_id, docid |-> ex.docid,
     label |-> p.label, score |-> LabelScore(p.label), confidence |-> None,
     rationale |-> None, raw_text |-> TextV(resp.text), latency_ms |-> lat,
     retries |-> 0, cost_estimate |-> None, warnings |-> <<>>]

\* the arguments of ModelJudgement(...)
JudgementFields(ex, mid, resp, lat, p) ==
    [model_id |-> mid, provider |-> "openrouter", version |-> resp.model,
     query_id |-> ex.query_id, docid |-> ex.docid,
     label |-> p.label, score |-> LabelScore(p.label), confidence |-> None,
     rationale |-> None, raw_text |-> TextV(resp.text), latency_ms |-> lat,
     retries |-> 0, cost_estimate |-> None, warnings |-> p.warnings]

\* the loop body after self.response_parser.parse(raw_text) was evaluated
\* with outcome p
AfterResponseParse(ex, mid, resp, lat, p) ==
    IF p.raised THEN [raised |-> TRUE, error |-> p.error]
    ELSE ModelJudgement(JudgementFields(ex, mid, resp, lat, p))

\* the loop body for one example: the API call, the parser, the judgement
LoopBody(ex, mid, resp, lat) ==
    IF resp.kind = "api_error" THEN
        [raised |-> TRUE,
         error |-> [type |-> "APIError", msg |-> "request failed", arg |-> <<>>]]
    ELSE IF resp.kind = "no_content" THEN
        \* re.search on None
        [raised |-> TRUE,
         error |-> [type |-> "TypeError", msg |-> "expected string or bytes-like object",
                    arg |-> <<>>]]
    ELSE AfterResponseParse(ex, mid, resp, lat, JsonParse(score_field, resp.text))

AdapterIdle ==
    /\ adapter_pc = "Idle"
    /\ openrouter_model_id = None
    /\ examples = <<>>
    /\ responses = <<>>
    /\ yielded = <<>>
    /\ adapter_raised = None

AdapterInit ==
    /\ adapter_pc = "Created"
    /\ openrouter_model_id \in {None, StrV("openai/gpt-oss-20b")}
    /\ examples \in ExampleLists
    /\ responses = <<>>
    /\ yielded = <<>>
    /\ adapter_raised = None

\* the generator up to the loop: the check of openrouter_model_id
AdapterStart ==
    /\ adapter_pc = "Created"
    /\ IF openrouter_model_id = None THEN
           /\ adapter_pc' = "Raised"
           /\ adapter_raised' = ValueError("missing openrouter_model_id field", <<>>)
       ELSE
           /\ adapter_pc' = "Running"
           /\ adapter_raised' = adapter_raised
    /\ UNCHANGED <<openrouter_model_id, examples, responses, yielded,
                   retryVars, jsonVars, strategyVars, factoryVars,
                   moreVars>>

\* one iteration of "for example in examples": it yields a judgement or an
\* exception ends the generator
AdapterNext ==
    /\ adapter_pc = "Running"
    /\ Len(responses) < Len(examples)
    /\ \E resp \in ApiResponses, d \in 0..MaxCallTime :
        \E r \in {LoopBody(examples[Len(responses) + 1], openrouter_model_id.s,
                           resp, 1000 * d)} :
          /\ responses' = Append(responses, resp)
          /\ IF r.raised THEN
                 /\ adapter_pc' = "Raised"
                 /\ adapter_raised' = r.error
                 /\ yielded' = yielded
             ELSE
                 /\ adapter_pc' = adapter_pc
                 /\ adapter_raised' = adapter_raised
                 /\ yielded' = Append(yielded, r.judgement)
    /\ UNCHANGED <<openrouter_model_id, examples,
                   retryVars, jsonVars, strategyVars, factoryVars,
                   moreVars>>

\* the examples are exhausted: the generator ends
AdapterDone ==
    /\ adapter_pc = "Running"
    /\ Len(responses) = Len(examples)
    /\ adapter_pc' = "Done"
    /\ UNCHANGED <<openrouter_model_id, examples, responses, yielded,
                   adapter_raised, retryVars, jsonVars, strategyVars,
                   factoryVars, moreVars>>

(***************************************************************************)
(* get_response_parser and JsonResponseParser.__init__.                    *)
(***************************************************************************)
\* values of prompt_config.response_parser: missing, empty, the supported
\* type and an unknown one
ParserTypes == {None, StrV(""), StrV("json"), StrV("xml")}

\* values of the argument score_field: the default, a field the responses
\* do not carry and one that is no valid piece of a pattern
ScoreFields == {"O", "Q", "("}

\* JsonResponseParser.__init__: the field is stored as it comes
JsonResponseParser(field) == [score_field |-> field]

\* get_response_parser
get_response_parser(parser_type) ==
    IF parser_type = None \/ parser_type = StrV("") THEN
        [raised |-> TRUE,
         error |-> ValueError("missing required field 'response_parser'", <<>>)]
    ELSE IF parser_type = StrV("json") THEN
        [raised |-> FALSE, parser |-> JsonResponseParser("O")]
    ELSE
        [raised |-> TRUE,
         error |-> ValueError("Unknown response_parser type", parser_type)]

FactoryIdle ==
    /\ response_parser = None
    /\ parser = None
    /\ factory_raised = None
    /\ record_text = <<>>
    /\ record_result = NotRun
    /\ record_raised = None

FactoryInit ==
    /\ response_parser \in ParserTypes
    /\ parser = None
    /\ factory_raised = None
    /\ record_text = <<>>
    /\ record_result = NotRun
    /\ record_raised = None

\* one call get_response_parser(prompt_config)
GetResponseParser ==
    /\ parser = None
    /\ factory_raised = None
    /\ \E r \in {get_response_parser(response_parser)} :
          IF r.raised THEN factory_raised' = r.error /\ parser' = parser
          ELSE parser' = r.parser /\ factory_raised' = factory_raised
    /\ UNCHANGED <<response_parser, record_text, record_result, record_raised,
                   retryVars, jsonVars, strategyVars, adapterVars,
                   moreVars>>

\* one call JsonResponseParser(score_field=field)
Construct ==
    /\ parser = None
    /\ factory_raised = None
    /\ \E field \in ScoreFields : parser' = JsonResponseParser(field)
    /\ UNCHANGED <<response_parser, factory_raised, record_text, record_result,
                   record_raised, retryVars, jsonVars, strategyVars,
                   adapterVars, moreVars>>

\* the first record is parsed: parser.parse(raw_text)
ParseRecord ==
    /\ parser # None
    /\ record_result = NotRun
    /\ record_raised = None
    /\ \E t \in AdapterTexts :
        \E r \in {JsonParse(parser.score_field, t)} :
          /\ record_text' = t
          /\ IF r.raised THEN
                 record_raised' = r.error /\ record_result' = record_result
             ELSE
                 /\ record_result' = [label |-> r.label, warnings |-> r.warnings]
                 /\ record_raised' = record_raised
    /\ UNCHANGED <<response_parser, parser, factory_raised,
                   retryVars, jsonVars, strategyVars, adapterVars,
                   moreVars>>

(***************************************************************************)
(* NdjsonJudgementWriter (infer/adapters/io/ndjson_judgement_writer.py):   *)
(* write and close calls on one writer.  output_file is the content of the *)
(* file at output_path, a sequence of lines; a file that does not exist    *)
(* has no lines.                                                           *)
(***************************************************************************)
\* the judgements handed to write
WrittenJudgements ==
    {[query_id |-> "q1", docid |-> "d1", label |-> IntV(1)],
     [query_id |-> "q2", docid |-> "d2", label |-> None]}

\* a line left in the file by an earlier run
StaleLine == [json |-> [query_id |-> "q0", docid |-> "d0", label |-> IntV(0)]]

\* judgement.model_dump_json(): the JSON text of the judgement
model_dump_json(j) == [json |-> j]

\* IOError is OSError
IOError(msg) == [type |-> "OSError", msg |-> msg, arg |-> <<>>]

\* mutant: the file is opened for appending
OpenAppend(content) == content

\* self.output_path.open("w", ...): the file is created or truncated
OpenW(content) == <<>>

\* the body of write; can_open says whether open() succeeds if it is called
write(j, can_open) ==
    IF closed THEN
        [raised |-> IOError("Cannot write to closed writer"),
         file_handle |-> file_handle, output_file |-> output_file]
    ELSE IF file_handle = None /\ ~can_open THEN
        [raised |-> IOError("No such file or directory"),
         file_handle |-> file_handle, output_file |-> output_file]
    ELSE
        [raised |-> None,
         file_handle |-> [k |-> "file", mode |-> "w"],
         output_file |->
             Append(IF file_handle = None THEN OpenW(output_file) ELSE output_file,
                    model_dump_json(j))]

WriterCall(op, line, r) ==
    [op |-> op, line |-> line, raised |-> r.raised,
     before |-> output_file, after |-> r.output_file]

\* one call writer.write(judgement)
Write ==
    /\ Len(writer_calls) < MaxWriterCalls
    /\ \E j \in WrittenJudgements, can_open \in BOOLEAN :
        \E r \in {write(j, can_open)} :
          /\ file_handle' = r.file_handle
          /\ output_file' = r.output_file
          /\ writer_calls' = Append(writer_calls, WriterCall("write", model_dump_json(j), r))
    /\ UNCHANGED <<closed, retryVars, jsonVars, strategyVars, adapterVars,
                   factoryVars, readerVars, serviceVars, ingestVars,
                   streamVars>>

\* one call writer.close()
Close ==
    /\ Len(writer_calls) < MaxWriterCalls
    /\ closed' = IF ~closed /\ file_handle # None THEN TRUE ELSE closed
    /\ writer_calls' =
          Append(writer_calls,
                 WriterCall("close", None, [raised |-> None, output_file |-> output_file]))
    /\ UNCHANGED <<file_handle, output_file, retryVars, jsonVars,
                   strategyVars, adapterVars, factoryVars, readerVars,
                   serviceVars, ingestVars, streamVars>>

WriterIdle ==
    /\ file_handle = None
    /\ closed = FALSE
    /\ output_file = <<>>
    /\ writer_calls = <<>>

\* __init__; the file at output_path is absent or left by an earlier run
WriterInit ==
    /\ file_handle = None
    /\ closed = FALSE
    /\ output_file \in {<<>>, <<StaleLine>>}
    /\ writer_calls = <<>>

(***************************************************************************)
(* NdjsonExampleReader.read (infer/adapters/io/ndjson_example_reader.py).  *)
(* A line of the file is blank (empty after strip), the JSON text of a     *)
(* JudgingExample, a text json.loads rejects, or a JSON text that is not a *)
(* JudgingExample.                                                         *)
(***************************************************************************)
FileLines ==
    {[kind |-> "blank"], [kind |-> "bad_json"], [kind |-> "bad_example"]}
    \cup {[kind |-> "example", example |-> e] : e \in Examples}

InputFiles ==
    {[exists |-> FALSE, lines |-> <<>>]}
    \cup {[exists |-> TRUE, lines |-> ls] :
            ls \in UNION {[1..n -> FileLines] : n \in 0..MaxLines}}

Limits == {None} \cup {IntV(n) : n \in 0..MaxLimit}

\* "if limit is not None and len(examples) >= limit"
LimitReached(exs, lim) == lim # None /\ Len(exs) >= lim.n

\* the loop body for the line l with examples exs read so far
ReadLineBody(l, exs) ==
    IF l.kind = "blank" THEN
        [raised |-> None, examples |-> exs, break |-> FALSE]
    ELSE IF l.kind = "bad_json" THEN
        [raised |-> ValueError("Invalid JSON on line", <<line_num>>),
         examples |-> exs, break |-> FALSE]
    ELSE IF l.kind = "bad_example" THEN
        [raised |-> ValueError("Invalid JudgingExample on line", <<line_num>>),
         examples |-> exs, break |-> FALSE]
    ELSE
        [raised |-> None, examples |-> Append(exs, l.example),
         break |-> LimitReached(Append(exs, l.example), limit)]

\* read up to the loop: the file must exist
ReaderStart ==
    /\ reader_pc = "Called"
    /\ IF input_file.exists THEN
           /\ reader_pc' = "Reading"
           /\ read_raised' = read_raised
       ELSE
           /\ reader_pc' = "Raised"
           /\ read_raised' = [type |-> "FileNotFoundError",
                              msg |-> "Input file not found", arg |-> <<>>]
    /\ line_num' = 1
    /\ read_examples' = <<>>
    /\ UNCHANGED <<input_file, limit, read_result, retryVars, jsonVars,
                   strategyVars, adapterVars, factoryVars, writerVars,
                   serviceVars, ingestVars, streamVars>>

\* one iteration of "for line_num, line in enumerate(f, start=1)"
ReadLine ==
    /\ reader_pc = "Reading"
    /\ line_num <= Len(input_file.lines)
    /\ \E r \in {ReadLineBody(input_file.lines[line_num], read_examples)} :
          /\ read_examples' = r.examples
          /\ read_raised' = r.raised
          /\ reader_pc' = IF r.raised # None THEN "Raised"
                          ELSE IF r.break THEN "Returning"
                          ELSE "Reading"
          /\ line_num' = IF r.raised # None \/ r.break THEN line_num
                         ELSE line_num + 1
    /\ UNCHANGED <<input_file, limit, read_result, retryVars, jsonVars,
                   strategyVars, adapterVars, factoryVars, writerVars,
                   serviceVars, ingestVars, streamVars>>

\* the end of the loop and "return examples"
ReadReturn ==
    /\ \/ reader_pc = "Returning"
       \/ reader_pc = "Reading" /\ line_num > Len(input_file.lines)
    /\ read_result' = read_examples
    /\ reader_pc' = "Done"
    /\ UNCHANGED <<input_file, limit, line_num, read_examples, read_raised,
                   retryVars, jsonVars, strategyVars, adapterVars,
                   factoryVars, writerVars, serviceVars, ingestVars,
                   streamVars>>

ReaderIdle ==
    /\ input_file = [exists |-> FALSE, lines |-> <<>>]
    /\ limit = None
    /\ reader_pc = "Idle"
    /\ line_num = 1
    /\ read_examples = <<>>
    /\ read_result = NotRun
    /\ read_raised = None

ReaderInit ==
    /\ input_file \in InputFiles
    /\ limit \in Limits
    /\ reader_pc = "Called"
    /\ line_num = 1
    /\ read_examples = <<>>
    /\ read_result = NotRun
    /\ read_raised = None

(***************************************************************************)
(* InferenceService.run_inference (infer/domain/inference_service.py).     *)
(* The reader, the provider and the writer are ports: the provider yields  *)
(* any judgements or raises, and read, write and the callback may raise.   *)
(***************************************************************************)
\* the judgements the provider may yield: label and latency_ms
ServiceJudgements ==
    {[label |-> l, latency_ms |-> t] : l \in {None, IntV(1)}, t \in {3, 4}}

\* total_latency_ms / count
Quotient(a, b) == [k |-> "float", num |-> a, den |-> b]

\* mutant: the latency is not added up
UpdateStatsNoLatency(c, e, t, j) ==
    [count |-> c + 1, total_latency_ms |-> t,
     error_count |-> IF j.label = None THEN e + 1 ELSE e]

\* "Update statistics" in the loop body
UpdateStats(c, e, t, j) ==
    [count |-> c + 1, total_latency_ms |-> t + j.latency_ms,
     error_count |-> IF j.label = None THEN e + 1 ELSE e]

\* the dictionary returned
Statistics(c, e, t) ==
    [judgement_count |-> c, error_count |-> e, total_latency_ms |-> t,
     avg_latency_ms |-> IF c > 0 THEN Quotient(t, c) ELSE FloatV(0, 0)]

ServiceError(what) == [type |-> "Exception", msg |-> what, arg |-> <<>>]

\* self.example_reader.read(...) and the initialisation of the counters
ServiceStart ==
    /\ service_pc = "Called"
    /\ \E ok \in BOOLEAN :
          IF ok THEN service_pc' = "Looping" /\ service_raised' = service_raised
          ELSE service_pc' = "Raised" /\ service_raised' = ServiceError("read")
    /\ count' = 0
    /\ error_count' = 0
    /\ total_latency_ms' = 0
    /\ UNCHANGED <<written, writer_closed, stats, retryVars, jsonVars,
                   strategyVars, adapterVars, factoryVars, writerVars,
                   readerVars, ingestVars, streamVars>>

\* one iteration of the loop: the provider yields j, which is written,
\* counted and handed to the callback
ServiceStep ==
    /\ service_pc = "Looping"
    /\ count < MaxJudgements
    /\ \E j \in ServiceJudgements, o \in {"ok", "write_raises", "callback_raises"} :
        \E u \in {UpdateStats(count, error_count, total_latency_ms, j)} :
          IF o = "write_raises" THEN
              /\ service_pc' = "Raised"
              /\ service_raised' = ServiceError("write")
              /\ UNCHANGED <<count, error_count, total_latency_ms, written>>
          ELSE
              /\ written' = Append(written, j)
              /\ count' = u.count
              /\ error_count' = u.error_count
              /\ total_latency_ms' = u.total_latency_ms
              /\ IF o = "ok" THEN UNCHANGED <<service_pc, service_raised>>
                 ELSE /\ service_pc' = "Raised"
                      /\ service_raised' = ServiceError("on_judgement")
    /\ UNCHANGED <<writer_closed, stats, retryVars, jsonVars, strategyVars,
                   adapterVars, factoryVars, writerVars, readerVars,
                   ingestVars, streamVars>>

\* the provider raises instead of yielding
ServiceProviderRaises ==
    /\ service_pc = "Looping"
    /\ service_pc' = "Raised"
    /\ service_raised' = ServiceError("infer")
    /\ UNCHANGED <<count, error_count, total_latency_ms, written,
                   writer_closed, stats, retryVars, jsonVars, strategyVars,
                   adapterVars, factoryVars, writerVars, readerVars,
                   ingestVars, streamVars>>

\* the provider is exhausted: close the writer, return the statistics
ServiceReturn ==
    /\ service_pc = "Looping"
    /\ writer_closed' = TRUE
    /\ stats' = Statistics(count, error_count, total_latency_ms)
    /\ service_pc' = "Done"
    /\ UNCHANGED <<count, error_count, total_latency_ms, written,
                   service_raised, retryVars, jsonVars, strategyVars,
                   adapterVars, factoryVars, writerVars, readerVars,
                   ingestVars, streamVars>>

ServiceIdle ==
    /\ service_pc = "Idle"
    /\ count = 0
    /\ error_count = 0
    /\ total_latency_ms = 0
    /\ written = <<>>
    /\ writer_closed = FALSE
    /\ stats = NotRun
    /\ service_raised = None

ServiceInit ==
    /\ service_pc = "Called"
    /\ count = 0
    /\ error_count = 0
    /\ total_latency_ms = 0
    /\ written = <<>>
    /\ writer_closed = FALSE
    /\ stats = NotRun
    /\ service_raised = None

(***************************************************************************)
(* iter_examples (ingest/adapters/llm_judge.py): the join of the qrels     *)
(* with the queries and the documents.  A line of the qrels file is blank, *)
(* a qrel "qid rel docid", or a line read_qrels rejects.                   *)
(***************************************************************************)
QueryIds == {"q1", "q2"}

DocIds == {"d1", "d2"}

QrelLines ==
    {[kind |-> "blank"], [kind |-> "invalid"]}
    \cup {[kind |-> "qrel", query_id |-> q, docid |-> d, relevance |-> 1] :
            q \in QueryIds, d \in DocIds}

\* JudgingExample.from_parts("llm-judge-2024", q, d, r)
from_parts(dataset, r) ==
    [dataset |-> dataset, query_id |-> r.query_id, docid |-> r.docid,
     gold_relevance |-> r.relevance]

\* mutant: only missing queries make the summary appear
SummaryDueQueriesOnly(mq, md) == mq # 0

\* "if missing_q or missing_d"
SummaryDue(mq, md) == mq # 0 \/ md # 0

\* read_queries and read_documents have returned; the counters are set
IngestStart ==
    /\ ingest_pc = "Called"
    /\ ingest_pc' = "Joining"
    /\ missing_q' = 0
    /\ missing_d' = 0
    /\ qrel_idx' = 1
    /\ UNCHANGED <<queries, docs, qrel_lines, ingested, printed,
                   ingest_raised, retryVars, jsonVars, strategyVars,
                   adapterVars, factoryVars, writerVars, readerVars,
                   serviceVars, streamVars>>

\* read_qrels reads the next line; for a qrel, one iteration of the loop
\* of iter_examples
IngestQrel ==
    /\ ingest_pc = "Joining"
    /\ qrel_idx <= Len(qrel_lines)
    /\ \E l \in {qrel_lines[qrel_idx]} :
          IF l.kind = "invalid" THEN
              /\ ingest_pc' = "Raised"
              /\ ingest_raised' = ValueError("Invalid qrel line", <<qrel_idx>>)
              /\ UNCHANGED <<qrel_idx, missing_q, missing_d, ingested>>
          ELSE
              /\ qrel_idx' = qrel_idx + 1
              /\ UNCHANGED <<ingest_pc, ingest_raised>>
              /\ IF l.kind = "blank" THEN
                     UNCHANGED <<missing_q, missing_d, ingested>>
                 ELSE IF l.query_id \notin queries THEN
                     /\ missing_q' = missing_q + 1
                     /\ UNCHANGED <<missing_d, ingested>>
                 ELSE IF l.docid \notin docs THEN
                     /\ missing_d' = missing_d + 1
                     /\ UNCHANGED <<missing_q, ingested>>
                 ELSE
                     /\ ingested' = Append(ingested, from_parts("llm-judge-2024", l))
                     /\ UNCHANGED <<missing_q, missing_d>>
    /\ UNCHANGED <<queries, docs, qrel_lines, printed, retryVars, jsonVars,
                   strategyVars, adapterVars, factoryVars, writerVars,
                   readerVars, serviceVars, streamVars>>

\* after the loop: the summary, and the generator is exhausted
IngestFinish ==
    /\ ingest_pc = "Joining"
    /\ qrel_idx > Len(qrel_lines)
    /\ printed' = IF SummaryDue(missing_q, missing_d)
                  THEN [missing_q |-> missing_q, missing_d |-> missing_d]
                  ELSE printed
    /\ ingest_pc' = "Done"
    /\ UNCHANGED <<queries, docs, qrel_lines, qrel_idx, missing_q, missing_d,
                   ingested, ingest_raised, retryVars, jsonVars,
                   strategyVars, adapterVars, factoryVars, writerVars,
                   readerVars, serviceVars, streamVars>>

IngestIdle ==
    /\ queries = {}
    /\ docs = {}
    /\ qrel_lines = <<>>
    /\ ingest_pc = "Idle"
    /\ qrel_idx = 1
    /\ missing_q = 0
    /\ missing_d = 0
    /\ ingested = <<>>
    /\ printed = None
    /\ ingest_raised = None

IngestInit ==
    /\ queries \in SUBSET QueryIds
    /\ docs \in SUBSET DocIds
    /\ qrel_lines \in UNION {[1..n -> QrelLines] : n \in 0..MaxQrels}
    /\ ingest_pc = "Called"
    /\ qrel_idx = 1
    /\ missing_q = 0
    /\ missing_d = 0
    /\ ingested = <<>>
    /\ printed = None
    /\ ingest_raised = None

(***************************************************************************)
(* iter_judgements (infer/adapters/huggingface.py): one client, one infer  *)
(* call per example.                                                       *)
(***************************************************************************)
StreamCall(i) == [ev |-> "call", i |-> i]

StreamYield(i) == [ev |-> "yield", i |-> i]

\* mutant: the loop goes on after an infer call has failed
StreamAfterKeepGoing(p) == "Iterating"

\* the generator after a step of infer that left infer in state p: an
\* exception of infer ends the generator
StreamAfter(p) == IF p = "ExhaustedFailure" THEN "Raised" ELSE "Iterating"

\* the client is constructed; without a token __init__ raises
StreamStart ==
    /\ stream_pc = "Called"
    /\ \E has_token \in BOOLEAN :
          IF has_token THEN
              stream_pc' = "Iterating" /\ stream_raised' = stream_raised
          ELSE
              /\ stream_pc' = "Raised"
              /\ stream_raised' = ValueError("HuggingFace token required", <<>>)
    /\ UNCHANGED <<stream_examples, stream_idx, stream_log, retryVars, jsonVars,
                   strategyVars, adapterVars, factoryVars, writerVars,
                   readerVars, serviceVars, ingestVars>>

\* "for example in examples": the next example is taken and
\* client.infer(example, system_prompt) runs up to its loop
StreamNext ==
    /\ stream_pc = "Iterating"
    /\ pc # "Attempting"
    /\ stream_idx < Len(stream_examples)
    /\ stream_idx' = stream_idx + 1
    /\ example' = stream_examples[stream_idx + 1]
    /\ BeginStep
    /\ raw_text' = None
    /\ latency_ms' = 0
    /\ returned' = None
    /\ UNCHANGED <<stream_pc, stream_examples, stream_log, stream_raised,
                   max_retries, clock, calls, events, raised, jsonVars,
                   strategyVars, adapterVars, factoryVars, writerVars,
                   readerVars, serviceVars, ingestVars>>

\* one iteration of the loop of infer for the current example; the value
\* infer returns is yielded, the exception it raises ends the generator
StreamAttempt ==
    /\ stream_pc = "Iterating"
    /\ pc = "Attempting"
    /\ AttemptStep
    /\ stream_pc' = StreamAfter(pc')
    /\ stream_raised' = IF pc' = "ExhaustedFailure" THEN raised' ELSE stream_raised
    /\ stream_log' =
          IF pc' = "Success"
          THEN stream_log \o <<StreamCall(stream_idx), StreamYield(stream_idx)>>
          ELSE Append(stream_log, StreamCall(stream_idx))
    /\ UNCHANGED <<stream_examples, stream_idx, max_retries, example,
                   start_time, jsonVars, strategyVars, adapterVars, factoryVars,
                   writerVars, readerVars, serviceVars, ingestVars>>

\* the examples are exhausted: the generator returns
StreamDone ==
    /\ stream_pc = "Iterating"
    /\ pc # "Attempting"
    /\ stream_idx = Len(stream_examples)
    /\ stream_pc' = "Done"
    /\ UNCHANGED <<stream_examples, stream_idx, stream_log, stream_raised,
                   retryVars, jsonVars, strategyVars, adapterVars, factoryVars,
                   writerVars, readerVars, serviceVars, ingestVars>>

StreamIdle ==
    /\ stream_pc = "Idle"
    /\ stream_examples = <<>>
    /\ stream_idx = 0
    /\ stream_log = <<>>
    /\ stream_raised = None

\* iter_judgements is called; the client gets the default max_retries
StreamInit ==
    /\ stream_pc = "Called"
    /\ stream_examples \in ExampleLists
    /\ stream_idx = 0
    /\ stream_log = <<>>
    /\ stream_raised = None
    /\ RetryInit
    /\ max_retries = DefaultMaxRetries
    /\ example = [query_id |-> "q1", docid |-> "d1"]

MoreIdle == WriterIdle /\ ReaderIdle /\ ServiceIdle /\ IngestIdle /\ StreamIdle

InitStream ==
    /\ StreamInit
    /\ JsonIdle /\ StrategyIdle /\ AdapterIdle /\ FactoryIdle
    /\ WriterIdle /\ ReaderIdle /\ ServiceIdle /\ IngestIdle

NextStream == StreamStart \/ StreamNext \/ StreamAttempt \/ StreamDone

SpecStream == InitStream /\ [][NextStream]_vars

ParsersIdle ==
    RetryIdle /\ JsonIdle /\ StrategyIdle /\ AdapterIdle /\ FactoryIdle

InitWriter ==
    /\ ParsersIdle /\ WriterInit /\ ReaderIdle /\ ServiceIdle /\ IngestIdle
    /\ StreamIdle

InitReader ==
    /\ ParsersIdle /\ WriterIdle /\ ReaderInit /\ ServiceIdle /\ IngestIdle
    /\ StreamIdle

InitService ==
    /\ ParsersIdle /\ WriterIdle /\ ReaderIdle /\ ServiceInit /\ IngestIdle
    /\ StreamIdle

InitIngest ==
    /\ ParsersIdle /\ WriterIdle /\ ReaderIdle /\ ServiceIdle /\ IngestInit
    /\ StreamIdle

NextIngest == IngestStart \/ IngestQrel \/ IngestFinish

SpecIngest == InitIngest /\ [][NextIngest]_vars

NextService ==
    ServiceStart \/ ServiceStep \/ ServiceProviderRaises \/ ServiceReturn

SpecService == InitService /\ [][NextService]_vars

NextReader == ReaderStart \/ ReadLine \/ ReadReturn

SpecReader == InitReader /\ [][NextReader]_vars

NextWriter == Write \/ Close

SpecWriter == InitWriter /\ [][NextWriter]_vars

Init == RetryInit /\ JsonIdle /\ StrategyIdle /\ AdapterIdle /\ FactoryIdle /\ MoreIdle

Next == Begin \/ Attempt

Spec == Init /\ [][Next]_vars

\* one call of infer for one example (the loop never reads the example)
InitLive == Init /\ example = [query_id |-> "q1", docid |-> "d1"]

\* every attempt terminates: the step that is enabled is taken
SpecLive == InitLive /\ [][Next]_vars /\ WF_vars(Next)

InitJson == RetryIdle /\ JsonInit /\ StrategyIdle /\ AdapterIdle /\ FactoryIdle /\ MoreIdle

InitStrategy ==
    RetryIdle /\ JsonIdle /\ StrategyInit /\ AdapterIdle /\ FactoryIdle /\ MoreIdle

NextStrategy == ParseJudgement \/ NormalizeConfidence

SpecStrategy == InitStrategy /\ [][NextStrategy]_vars

InitAdapter ==
    RetryIdle /\ JsonIdle /\ StrategyIdle /\ AdapterInit /\ FactoryIdle /\ MoreIdle

NextAdapter == AdapterStart \/ AdapterNext \/ AdapterDone

SpecAdapter == InitAdapter /\ [][NextAdapter]_vars

InitFactory ==
    RetryIdle /\ JsonIdle /\ StrategyIdle /\ AdapterIdle /\ FactoryInit /\ MoreIdle

NextFactory == GetResponseParser \/ Construct \/ ParseRecord

SpecFactory == InitFactory /\ [][NextFactory]_vars

NextJson == Parse

SpecJson == InitJson /\ [][NextJson]_vars

(***************************************************************************)
(* Claims about the retry controller.                                      *)
(***************************************************************************)
Terminal == {"Success", "ExhaustedFailure"}

CallEvents == {i \in 1..Len(events) : events[i].ev = "call"}
SleepEvents == {i \in 1..Len(events) : events[i].ev = "sleep"}

\* the log entry of the most recent provider call
LastCall == events[CHOOSE i \in CallEvents : \A j \in CallEvents : j <= i]

\* the provider call of log entry e returned a text in which parse_judgement
\* finds no label
ParseFailed(e) == e.got.kind = "text" /\ parse_judgement(e.got.text).raised

\* the provider call of log entry e returned a text in which parse_judgement
\* finds a label
Answered(e) == e.got.kind = "text" /\ ~ParseFailed(e)

\* C1: when every attempt fails, infer calls the provider exactly
\* max_retries + 1 times before it reports exhaustion, never more and never
\* fewer; with the default max_retries = 3 that is 4 calls.
C1_ExactAttempts ==
    /\ calls = Cardinality(CallEvents)
    /\ calls <= max_retries + 1
    /\ pc = "ExhaustedFailure" =>
          /\ calls = max_retries + 1
          /\ \A i \in CallEvents : events[i].err # None
          /\ max_retries = DefaultMaxRetries => calls = 4

C1_Witness ==
    pc = "ExhaustedFailure" /\ max_retries = DefaultMaxRetries /\ calls = 4

\* C2: when the provider fails k <= max_retries times and then answers
\* with a text that holds a label, infer returns a judgement with
\* retries = k whose latency covers the backoff sleeps 2^0 + ... + 2^(k-1).
C2_SuccessAfterK ==
    (calls > 0 /\ Answered(LastCall)) =>
        /\ pc = "Success"
        /\ returned # None
        /\ returned.retries = LastCall.n
        /\ returned.latency_ms >= 1000 * SumPow2(LastCall.n)

\* C3: a backoff sleep happens only between two attempts: the log starts
\* with attempt 0, failed attempt n that is followed by another attempt is
\* followed by one sleep of exactly 2^n seconds that ends when attempt n+1
\* starts, and no sleep follows the last failed attempt.
C3_BackoffBetweenAttempts ==
    /\ \A i \in 1..Len(events) :
          IF i % 2 = 1
          THEN /\ events[i].ev = "call"
               /\ events[i].n = (i - 1) \div 2
               /\ i > 1 => events[i].at = events[i - 1].at + events[i - 1].n
          ELSE /\ events[i].ev = "sleep"
               /\ events[i].n = Pow2(events[i - 1].n)
               /\ events[i].at >= events[i - 1].at
    /\ pc \in Terminal => Len(events) % 2 = 1
    /\ pc = "Attempting" => (Len(events) % 2 = 0 /\ attempt = Len(events) \div 2)
    /\ (pc = "Attempting" /\ events # <<>>) =>
          clock = events[Len(events)].at + events[Len(events)].n

C3_Witness ==
    /\ pc = "ExhaustedFailure"
    /\ Len(events) = 7
    /\ events[2].n = 1 /\ events[4].n = 2 /\ events[6].n = 4

\* C4: the only transitions of one call are Pending to Attempting(0) and
\* Attempting(n) to Success, Attempting(n+1) or ExhaustedFailure; after
\* Success or ExhaustedFailure nothing of the call changes any more.
C4_Transitions ==
    [][ /\ pc = "Pending" =>
             (pc' = "Pending" \/ (pc' = "Attempting" /\ attempt' = 0 /\ calls' = 0))
        /\ pc = "Attempting" =>
             \/ pc' \in Terminal /\ attempt' = attempt
             \/ pc' = "Attempting" /\ attempt' \in {attempt, attempt + 1}
        /\ (pc = "Attempting" /\ calls' # calls) =>
             (pc' = "Attempting" => attempt' = attempt + 1)
        /\ pc \in Terminal => retryVars' = retryVars
      ]_vars

C4_Witness == pc = "ExhaustedFailure" /\ attempt = 2 /\ max_retries = 2

\* C5: when all attempts through max_retries fail, infer ends with an error
\* that names the query_id and the docid of the pair and the error of the
\* last failed attempt, and returns no judgement.
C5_ExhaustionError ==
    pc = "ExhaustedFailure" =>
        /\ raised # None
        /\ raised.type = "RuntimeError"
        /\ raised.query_id = example.query_id
        /\ raised.docid = example.docid
        /\ raised.last_error = LastCall.err
        /\ raised.last_error # None
        /\ returned = None

C5_Witness ==
    /\ pc = "ExhaustedFailure"
    /\ calls > 1
    /\ events[1].err # LastCall.err
    /\ example.query_id = "q2"

NewCall == events'[Len(events) + 1]

\* C27: the provider call and the parse step are one retryable unit: when
\* the call of attempt n returns a text and parsing it raises, the attempt
\* is counted as failed: retries is incremented, and for n < max_retries
\* the backoff of 2^n seconds is slept and the provider is called again,
\* else the call ends exhausted.
C27_ParseFailureIsAttemptFailure ==
    [][ (pc = "Attempting" /\ calls' = calls + 1
         /\ NewCall.got.kind = "text" /\ NewCall.got.text = NoSignalText) =>
            /\ retries' = retries + 1
            /\ last_error'.type = "ValueError"
            /\ NewCall.err = last_error'
            /\ returned' = None
            /\ IF attempt < max_retries THEN
                   /\ Len(events') = Len(events) + 2
                   /\ events'[Len(events) + 2].ev = "sleep"
                   /\ events'[Len(events) + 2].n = Pow2(attempt)
                   /\ clock' = events'[Len(events) + 2].at + Pow2(attempt)
                   /\ pc' = "Attempting"
                   /\ attempt' = attempt + 1
               ELSE
                   /\ Len(events') = Len(events) + 1
                   /\ pc' = "ExhaustedFailure"
      ]_vars

C27_Witness ==
    /\ calls = 3
    /\ events[1].got.kind = "text" /\ events[1].got.text = NoSignalText
    /\ events[2] = SleepEvent(1, events[2].at)
    /\ events[3].got.kind = "text" /\ events[3].got.text = NoSignalText
    /\ events[4] = SleepEvent(2, events[4].at)
    /\ retries = 3

\* C29: provided every attempt terminates, every call of infer terminates
\* for every max_retries: it reaches Success or ExhaustedFailure, after at
\* most max_retries + 1 attempts and at most max_retries sleeps.
C29_Terminates ==
    /\ <>(pc \in Terminal)
    /\ [](calls <= max_retries + 1 /\ Cardinality(SleepEvents) <= max_retries)

C29_Witness ==
    /\ pc \in Terminal
    /\ max_retries = MaxRetriesBound
    /\ calls = max_retries + 1
    /\ Cardinality(SleepEvents) = max_retries

\* the attempts of the call that have failed so far
FailedAttempts == {i \in CallEvents : events[i].err # None}

\* C30: at every point of infer the retries counter is the number of
\* attempts that have failed so far; every returned judgement has
\* 0 <= retries <= max_retries, and the count in the exhaustion error is the
\* number of failed attempts, max_retries + 1.
C30_RetriesCountsFailures ==
    /\ retries = Cardinality(FailedAttempts)
    /\ returned # None =>
          /\ returned.retries = Cardinality(FailedAttempts)
          /\ returned.retries >= 0
          /\ returned.retries <= max_retries
    /\ pc = "ExhaustedFailure" =>
          /\ raised.retries = Cardinality(FailedAttempts)
          /\ raised.retries = max_retries + 1

C30_Witness ==
    /\ pc = "ExhaustedFailure"
    /\ max_retries = 2
    /\ raised.retries = 3
    /\ retries = 3

(***************************************************************************)
(* Claims about the JSON score-field parser.                               *)
(***************************************************************************)
\* v occurs in s at position i
OccursAt(s, i, v) ==
    i >= 1 /\ i + Len(v) - 1 <= Len(s) /\ SubSeq(s, i, i + Len(v) - 1) = v

Occurs(s, v) == \E i \in 1..Len(s) : OccursAt(s, i, v)

OpenBraces(s) == {i \in 1..Len(s) : s[i] = "{"}

\* the valid objects with score n: bare, with or without a blank, and
\* multi-aspect
ValidObjects(n) ==
    {BareObject(n), <<"{", "\"O\"", ":", n, "}">>, MultiAspectObject(n)}

ValidScores == {"0", "1", "2"}

\* {"O": n} with n an integer outside {0,1,2} or not an integer
InvalidObjects ==
    { BareObject("5"),
      Obj1(Member("O", <<"1", "2">>)),
      Obj1(Member("O", <<"2", ".", "0">>)),
      BareObject("\"1\""),
      BareObject("true"),
      BareObject(LongDigits) }

\* the call parse(jtext) is over: it returned or an exception left it
ParseOver == jresult # NotRun \/ jraised # None

ParsedTo(n) == [label |-> IntV(DigitVal(n)), warnings |-> <<>>]

\* C7 as stated: for every text that contains a valid {"O": n}, whatever
\* comes before or after it, the parser returns (n, []) for such an n.
C7_ValidAnywhere ==
    (jresult # NotRun /\ \E n \in ValidScores : \E v \in ValidObjects(n) : Occurs(jtext, v)) =>
        \E n \in ValidScores :
            /\ \E v \in ValidObjects(n) : Occurs(jtext, v)
            /\ jresult = ParsedTo(n)

\* C7 amended: for every text in which a valid {"O": n}, bare or
\* multi-aspect, starts at the first "{" of the text, whatever comes before
\* or after it, the parser returns (n, []).
C7_ValidAtFirstBrace ==
    jresult # NotRun =>
        \A n \in ValidScores : \A v \in ValidObjects(n) :
            (OpenBraces(jtext) # {} /\ OccursAt(jtext, Min(OpenBraces(jtext)), v)) =>
                jresult = ParsedTo(n)

C7_Witness ==
    /\ jresult = ParsedTo("1")
    /\ jtext = <<"abc">> \o MultiAspectObject("1") \o BareObject("5")

\* C8 as stated: for every text that contains {"O": n} with n outside
\* {0,1,2} or not an integer, the parser returns None and one warning.
C8_InvalidAnywhere ==
    (ParseOver /\ \E v \in InvalidObjects : Occurs(jtext, v)) =>
        /\ jraised = None
        /\ jresult.label = None
        /\ Len(jresult.warnings) = 1

\* C8 where the invalid object is the only one: for every text that
\* contains {"O": n} with n outside {0,1,2} or not an integer and no "{"
\* other than the one of that object, the parser returns None and exactly
\* one warning.
C8_InvalidOnlyObject ==
    ParseOver =>
        \A v \in InvalidObjects :
            (Cardinality(OpenBraces(jtext)) = 1 /\ Occurs(jtext, v)) =>
                /\ jraised = None
                /\ jresult.label = None
                /\ Len(jresult.warnings) = 1

\* the text has a brace-delimited substring that holds the score field
HasScoreObject(s) ==
    \E i \in 1..Len(s), j \in 1..Len(s) :
        /\ i < j
        /\ s[i] = "{"
        /\ s[j] = "}"
        /\ \E k \in (i + 1)..(j - 1) : s[k] = "\"O\""

C10_LabelCleanInteger ==
    jresult # NotRun => jresult.label \in {None, IntV(0), IntV(1), IntV(2)}

\* a valid {"O": n} occurs in jtext after position e
ValidObjectAfter(e) ==
    \E n \in ValidScores : \E v \in ValidObjects(n) :
        \E j \in (e + 1)..Len(jtext) : OccursAt(jtext, j, v)

\* the call parse(jtext) ended as d says, with label None when d is a
\* rejection and a valid object follows position e
DecidedAs(e, d) ==
    /\ IF d.raised THEN jraised = d.error /\ jresult = NotRun
       ELSE jresult = [label |-> d.label, warnings |-> d.warnings] /\ jraised = None
    /\ (~d.raised /\ d.label = None /\ ValidObjectAfter(e)) =>
          jresult # NotRun /\ jresult.label = None

\* the call ended as loading and validating jtext[i..e] alone does
DecidedBy(i, e) ==
    DecidedAs(e, ParseLoaded(score_field, json_loads(SubSeq(jtext, i, e))))

\* Ms the places of jtext where the extraction pattern matches
FirstMatchDecides(Ms) ==
    IF Ms = {} THEN
        jresult = [label |-> None, warnings |-> <<NoJsonWarning(score_field)>>]
    ELSE DecidedBy(Min(Ms), NextClose(jtext, Min(Ms) + 1))

\* C26: the parser decides on the first substring that matches its
\* extraction pattern and on nothing else: the outcome of parse is the
\* outcome of loading and validating that substring alone, whatever stands
\* before and after it (without a match: label None and the no-JSON
\* warning), and when that first substring is rejected the label is None
\* even if a valid {"O": n} follows later in the text.
C26_FirstMatchDecides ==
    ParseOver => FirstMatchDecides(PatternMatches(jtext, score_field))

C26_Witness ==
    /\ jtext = <<"abc">> \o BareObject("5") \o BareObject("2")
    /\ jresult # NotRun
    /\ jresult.label = None
    /\ Len(jresult.warnings) = 1

(***************************************************************************)
(* Claims about NdjsonJudgementWriter.                                     *)
(***************************************************************************)
WriteCalls == {k \in 1..Len(writer_calls) : writer_calls[k].op = "write"}

CloseCalls == {k \in 1..Len(writer_calls) : writer_calls[k].op = "close"}

SuccessfulWrites == {k \in WriteCalls : writer_calls[k].raised = None}

\* the lines of the successful writes among the first k calls, in order
RECURSIVE WrittenLines(_)
WrittenLines(k) ==
    IF k = 0 THEN <<>>
    ELSE IF k \in SuccessfulWrites
         THEN Append(WrittenLines(k - 1), writer_calls[k].line)
         ELSE WrittenLines(k - 1)

\* C21: for every sequence of write and close calls on one writer, each
\* write that comes after a close call raises IOError and adds nothing to
\* the output.
C21_WriteAfterCloseRaises ==
    \A i \in CloseCalls : \A k \in WriteCalls :
        i < k =>
            /\ writer_calls[k].raised # None
            /\ writer_calls[k].after = writer_calls[k].before

RECURSIVE ExamplesOfLines(_, _)
ExamplesOfLines(ls, k) ==
    IF k = 0 THEN <<>>
    ELSE IF ls[k].kind = "example"
         THEN Append(ExamplesOfLines(ls, k - 1), ls[k].example)
         ELSE ExamplesOfLines(ls, k - 1)

NonBlankLines == {k \in 1..Len(input_file.lines) : input_file.lines[k].kind # "blank"}

AllFileExamples == ExamplesOfLines(input_file.lines, Len(input_file.lines))

\* C23: for every limit >= 0 and every input file a read that returns
\* returns at most limit examples, namely the first min(limit, number of
\* non-blank lines) examples in file order; with limit None it returns all
\* of them.
C23_ReadHonoursLimit ==
    reader_pc = "Done" =>
        IF limit = None THEN read_result = AllFileExamples
        ELSE /\ Len(read_result) <= limit.n
             /\ Len(read_result) =
                    IF limit.n <= Cardinality(NonBlankLines) THEN limit.n
                    ELSE Cardinality(NonBlankLines)
             /\ read_result = SubSeq(AllFileExamples, 1, Len(read_result))

(***************************************************************************)
(* Claims about InferenceService.run_inference.                            *)
(***************************************************************************)
\* the judgements written whose label is None
WrittenErrors == {k \in 1..Len(written) : written[k].label = None}

RECURSIVE SumLatency(_)
SumLatency(k) ==
    IF k = 0 THEN 0 ELSE SumLatency(k - 1) + written[k].latency_ms

\* C24: the statistics run_inference returns match what was written:
\* judgement_count is the number of judgements passed to the writer,
\* error_count the number of those whose label is None (so error_count <=
\* judgement_count), total_latency_ms the sum of their latencies and
\* avg_latency_ms is total_latency_ms / judgement_count, or 0.0 when no
\* judgement was produced.
C24_StatisticsMatchWritten ==
    stats # NotRun =>
        /\ stats.judgement_count = Len(written)
        /\ stats.error_count = Cardinality(WrittenErrors)
        /\ stats.error_count <= stats.judgement_count
        /\ stats.total_latency_ms = SumLatency(Len(written))
        /\ IF Len(written) = 0 THEN stats.avg_latency_ms = FloatV(0, 0)
           ELSE /\ stats.avg_latency_ms.den # 0
                /\ stats.avg_latency_ms.num * Len(written) =
                      SumLatency(Len(written)) * stats.avg_latency_ms.den

C24_Witness ==
    /\ stats # NotRun
    /\ Len(written) = 3
    /\ stats.error_count = 2
    /\ stats.total_latency_ms = 10
    /\ stats.avg_latency_ms = Quotient(10, 3)
    /\ writer_closed

(***************************************************************************)
(* Claims about iter_examples.                                             *)
(***************************************************************************)
\* the qrels: the lines read_qrels turns into a Relevance
Qrels == {k \in 1..Len(qrel_lines) : qrel_lines[k].kind = "qrel"}

Known(k) == qrel_lines[k].query_id \in queries /\ qrel_lines[k].docid \in docs

\* the examples of the known qrels among the first k lines, in order
RECURSIVE KnownExamples(_)
KnownExamples(k) ==
    IF k = 0 THEN <<>>
    ELSE IF k \in Qrels /\ Known(k)
         THEN Append(KnownExamples(k - 1),
                     [dataset |-> "llm-judge-2024",
                      query_id |-> qrel_lines[k].query_id,
                      docid |-> qrel_lines[k].docid,
                      gold_relevance |-> qrel_lines[k].relevance])
         ELSE KnownExamples(k - 1)

Skipped == {k \in Qrels : ~Known(k)}

\* C25: iter_examples yields one example for each qrel whose query and
\* document are both known, in qrel order, and skips every other qrel
\* without stopping; the number yielded plus the number skipped is the
\* number of qrels, and the skip summary is printed exactly when at least
\* one qrel was skipped.
C25_JoinSkipsMissing ==
    /\ ingest_pc \in {"Joining", "Done"} =>
          /\ ingested = KnownExamples(qrel_idx - 1)
          /\ missing_q + missing_d =
                Cardinality({k \in Skipped : k < qrel_idx})
    /\ ingest_pc = "Done" =>
          /\ qrel_idx = Len(qrel_lines) + 1
          /\ Len(ingested) + missing_q + missing_d = Cardinality(Qrels)
          /\ (printed # None) <=> (Skipped # {})
          /\ printed # None =>
                /\ printed.missing_q =
                      Cardinality({k \in Qrels : qrel_lines[k].query_id \notin queries})
                /\ printed.missing_d = Cardinality(Skipped) - printed.missing_q

C25_Witness ==
    /\ ingest_pc = "Done"
    /\ Len(qrel_lines) = 3
    /\ Qrels = {1, 2, 3}
    /\ Len(ingested) = 1
    /\ ingested[1].query_id = qrel_lines[3].query_id
    /\ printed = [missing_q |-> 1, missing_d |-> 1]

(***************************************************************************)
(* Claims about iter_judgements.                                           *)
(***************************************************************************)
StreamCalls == {a \in 1..Len(stream_log) : stream_log[a].ev = "call"}

StreamYields == {a \in 1..Len(stream_log) : stream_log[a].ev = "yield"}

\* the examples are processed one after another, in input order
StreamSequential ==
    /\ \A a \in StreamCalls : \A b \in StreamCalls :
          a < b => stream_log[a].i <= stream_log[b].i
    /\ \A b \in StreamCalls :
          stream_log[b].i > 1 =>
              \E a \in StreamYields : a < b /\ stream_log[a].i = stream_log[b].i - 1
    /\ \A a \in StreamYields : \A b \in StreamYields :
          a < b => stream_log[a].i < stream_log[b].i
    /\ \A a \in StreamCalls : stream_log[a].i \in 1..stream_idx

\* infer has exhausted its retries for the current example
StreamExhausted == pc = "ExhaustedFailure"

\* the generator ended with the error of the example it was at, and the
\* log holds no call for a later example
StreamEndedAtFailure ==
    StreamExhausted =>
        /\ stream_pc = "Raised"
        /\ stream_raised = raised
        /\ stream_raised.query_id = stream_examples[stream_idx].query_id
        /\ \A a \in StreamCalls : stream_log[a].i <= stream_idx
        /\ Cardinality({a \in StreamCalls : stream_log[a].i = stream_idx})
              = max_retries + 1

Stripped == Strip(atext)

\* the LABEL pattern matches somewhere in the text
HasLabelPattern == LabelMatches(Stripped) # {}

\* position of the label word of the leftmost match of the LABEL pattern
FirstLabelEnd == SkipSpace(Stripped, Min(LabelMatches(Stripped)) + 1)

\* the text that follows the label word of the leftmost match
AfterLabel == Strip(SubSeq(Stripped, FirstLabelEnd + 1, Len(Stripped)))

\* the REASONING pattern matches: the tag and at least one character
HasReasoning == \E i \in 1..(Len(Stripped) - 1) : Lower(Stripped[i]) = "reasoning:"

\* the tag REASONING: occurs in the text
HasReasoningTag == \E i \in 1..Len(atext) : Lower(atext[i]) = "reasoning:"

\* the lowercased words of the text
WordsLower == {Lower(atext[i]) : i \in 1..Len(atext)}

\* "relevant" occurs in the lowercased text, also as a part of "irrelevant"
HoldsRelevant == WordsLower \cap {"relevant", "irrelevant"} # {}

HoldsIrrelevant == "irrelevant" \in WordsLower

\* "partial" occurs in the lowercased text, also as a part of "partially"
HoldsPartial == WordsLower \cap {"partial", "partially"} # {}

ScoreOfLabel(r) ==
    /\ r.label = "relevant" => r.score = 90
    /\ r.label = "partially" => r.score = 50
    /\ r.label = "irrelevant" => r.score = 10

RestWarning == "Fallback: used text after label as rationale"

NoRationaleWarning == "No rationale found in output"

FallbackWarning(label) ==
    "Fallback: extracted '" \o label \o "' from unstructured text"

FallbackWarnings == {FallbackWarning(l) : l \in LabelWords}

InWarnings(r, w) == \E i \in 1..Len(r.warnings) : r.warnings[i] = w

\* C11 as stated: for every text that matches the LABEL pattern,
\* parse_judgement returns the label of the match, an empty warnings list
\* and the score of the mapping relevant 0.9, partially 0.5, irrelevant 0.1.
C11_LabelPatternNoWarnings ==
    (aresult # NotRun /\ HasLabelPattern) =>
        /\ ~aresult.raised
        /\ aresult.label = Lower(Stripped[FirstLabelEnd])
        /\ ScoreOfLabel(aresult)
        /\ aresult.warnings = <<>>

\* C11 amended: for every text that matches the LABEL pattern,
\* parse_judgement returns the lowercased label of the leftmost match and
\* the score of the mapping; the warnings list is empty when the REASONING
\* pattern matches too or nothing follows the label, and holds exactly the
\* warning about the rationale taken from the text after the label
\* otherwise.
C11_LabelPatternFirstMatch ==
    (aresult # NotRun /\ HasLabelPattern) =>
        /\ ~aresult.raised
        /\ aresult.label = Lower(Stripped[FirstLabelEnd])
        /\ aresult.label \in LabelWords
        /\ ScoreOfLabel(aresult)
        /\ aresult.warnings =
               IF HasReasoning \/ AfterLabel = <<>> THEN <<>> ELSE <<RestWarning>>

C11_Witness ==
    /\ aresult # NotRun
    /\ atext = <<"label:", "IRRELEVANT", " ", "it">>
    /\ aresult.label = "irrelevant"
    /\ aresult.score = 10
    /\ aresult.warnings = <<RestWarning>>

\* C12: when the LABEL pattern is absent, parse_judgement classifies by the
\* keywords of the lowercased text: "relevant" without "irrelevant" gives
\* "partially" when "partial" occurs too and "relevant" otherwise, else
\* "irrelevant" gives "irrelevant", else it raises; each of the three label
\* branches appends exactly one fallback warning, and no fallback warning
\* is appended when the LABEL pattern is present.
C12_KeywordFallback ==
    aresult # NotRun =>
        IF HasLabelPattern THEN
            /\ ~aresult.raised
            /\ \A w \in FallbackWarnings : ~InWarnings(aresult, w)
        ELSE IF HoldsRelevant /\ ~HoldsIrrelevant THEN
            /\ ~aresult.raised
            /\ aresult.label = IF HoldsPartial THEN "partially" ELSE "relevant"
            /\ Cardinality({i \in 1..Len(aresult.warnings) :
                              aresult.warnings[i] \in FallbackWarnings}) = 1
            /\ aresult.warnings[1] = FallbackWarning(aresult.label)
        ELSE IF HoldsIrrelevant THEN
            /\ ~aresult.raised
            /\ aresult.label = "irrelevant"
            /\ Cardinality({i \in 1..Len(aresult.warnings) :
                              aresult.warnings[i] \in FallbackWarnings}) = 1
            /\ aresult.warnings[1] = FallbackWarning("irrelevant")
        ELSE aresult.raised

C12_Witness ==
    /\ aresult # NotRun
    /\ atext = <<"LABEL:", "partial", " ", "relevant">>
    /\ ~aresult.raised
    /\ aresult.label = "partially"
    /\ aresult.warnings[1] = FallbackWarning("partially")

\* C13 as stated: whenever the label comes from the keyword fallback, the
\* rationale is None and the warnings hold "No rationale found".
C13_FallbackNoRationale ==
    (aresult # NotRun /\ ~HasLabelPattern /\ ~aresult.raised) =>
        /\ aresult.rationale = None
        /\ InWarnings(aresult, NoRationaleWarning)

\* C13 amended: whenever the label comes from the keyword fallback and the
\* REASONING pattern does not match, the rationale is None and the warnings
\* hold "No rationale found"; when the REASONING pattern matches, the
\* rationale is the text after the tag and that warning is absent.
C13_FallbackNoRationaleNoTag ==
    (aresult # NotRun /\ ~HasLabelPattern /\ ~aresult.raised) =>
        IF HasReasoning THEN
            /\ aresult.rationale # None
            /\ aresult.rationale.toks # <<>>
            /\ ~InWarnings(aresult, NoRationaleWarning)
        ELSE
            /\ aresult.rationale = None
            /\ aresult.warnings =
                   <<FallbackWarning(aresult.label), NoRationaleWarning>>

C13_Witness ==
    /\ aresult # NotRun
    /\ atext = <<"it", " ", "IRRELEVANT">>
    /\ ~aresult.raised
    /\ aresult.rationale = None
    /\ InWarnings(aresult, NoRationaleWarning)

\* C14 as stated: whenever the label was matched by the LABEL pattern and
\* the text has no REASONING tag, the rationale is everything after the
\* matched label and a warning about that fallback is appended.
C14_RestRationaleWarned ==
    (aresult # NotRun /\ HasLabelPattern /\ ~HasReasoningTag) =>
        /\ ~aresult.raised
        /\ aresult.rationale = TextV(AfterLabel)
        /\ InWarnings(aresult, RestWarning)

\* C14 amended: whenever the label was matched by the LABEL pattern and the
\* text has no REASONING tag, the rationale is the stripped text after the
\* matched label; the warning about that fallback is appended when that
\* text is not empty, and no warning is appended when it is empty.
C14_RestRationaleWarnedIfAny ==
    (aresult # NotRun /\ HasLabelPattern /\ ~HasReasoningTag) =>
        /\ ~aresult.raised
        /\ aresult.rationale = TextV(AfterLabel)
        /\ AfterLabel # <<>> => aresult.warnings = <<RestWarning>>
        /\ AfterLabel = <<>> => aresult.warnings = <<>>

C14_Witness ==
    /\ aresult # NotRun
    /\ atext = <<"LABEL:", "partially", " ", "it">>
    /\ aresult.rationale = TextV(<<"it">>)
    /\ aresult.warnings = <<RestWarning>>

C15_JsonParserTotal ==
    ParseOver =>
        /\ jraised = None
        /\ jresult.label = None => Len(jresult.warnings) >= 1

(***************************************************************************)
(* Claims about the judgements OpenRouterAdapter.infer assembles.          *)
(***************************************************************************)
\* the response the i-th yielded judgement was assembled from: every
\* iteration before it yielded too
ResponseOf(i) == responses[i]

\* the warnings with which the JSON-field parser explains a missing label
NoLabelReasons ==
    {"No JSON object with 'O' field found in response",
     "Failed to parse JSON",
     "Missing 'O' field in parsed JSON",
     "Invalid O score (expected 0, 1, or 2)"}

\* C17: every judgement the OpenRouter adapter assembles has the score
\* float(label) when the label is present and the score None when it is
\* absent, and the confidence None in both cases; for the raw text
\* {"O": 2} it has label 2, score 2.0 and no warnings.
C17_ScoreMirrorsLabel ==
    \A i \in 1..Len(yielded) :
        /\ yielded[i].confidence = None
        /\ yielded[i].label = None => yielded[i].score = None
        /\ yielded[i].label # None =>
              /\ yielded[i].label.k = "int"
              /\ yielded[i].score = NumV(100 * yielded[i].label.n)
        /\ ResponseOf(i).text = BareObject("2") =>
              /\ yielded[i].label = IntV(2)
              /\ yielded[i].score = NumV(200)
              /\ yielded[i].warnings = <<>>

C17_Witness ==
    /\ Len(yielded) = 2
    /\ yielded[1].raw_text = TextV(BareObject("2"))
    /\ yielded[1].label = IntV(2)
    /\ yielded[1].score = NumV(200)
    /\ yielded[2].label = None
    /\ yielded[2].score = None

\* C18: every judgement record whose label is absent carries the raw_text
\* exactly as the provider returned it and at least one warning that says
\* why no label was extracted.
C18_NoLabelExplained ==
    \A i \in 1..Len(yielded) :
        yielded[i].label = None =>
            /\ yielded[i].raw_text = TextV(ResponseOf(i).text)
            /\ Len(yielded[i].warnings) >= 1
            /\ yielded[i].warnings[1].msg \in NoLabelReasons

C18_Witness ==
    /\ Len(yielded) = 2
    /\ yielded[1].label = None
    /\ yielded[1].raw_text = TextV(<<"{">> \o BareObject("1"))
    /\ yielded[1].warnings[1].msg = "Failed to parse JSON"
    /\ yielded[2].label = None
    /\ yielded[2].warnings[1].msg = "Invalid O score (expected 0, 1, or 2)"

(***************************************************************************)
(* Claims that join the components.                                        *)
(***************************************************************************)
\* C19: when the provider answers the first attempt with the raw text
\* 'LABEL: relevant\nREASONING: it matches', infer returns a judgement with
\* label "relevant", score 0.9, confidence 0.9, rationale "it matches", no
\* warnings and retries 0.
C19_TaggedTextJudgement ==
    (calls >= 1 /\ events[1].got.kind = "text" /\ events[1].got.text = TaggedText) =>
        /\ pc = "Success"
        /\ returned # None
        /\ returned.label = StrV("relevant")
        /\ returned.score = NumV(90)
        /\ returned.confidence = NumV(90)
        /\ returned.rationale = TextV(<<"it", " ", "matches">>)
        /\ returned.warnings = <<>>
        /\ returned.retries = 0

\* the score fields of the response formats the parser is written for:
\* {"O": n} and {"M": x, "T": y, "O": n}
KnownScoreFields == {"O", "M", "T"}

\* C20: a malformed parser configuration (a missing or unknown strategy
\* name, an unknown score field) is rejected with an error when the parser
\* is constructed: no parser exists for it, and no record fails because of
\* it.
C20_ConfigFailsFast ==
    /\ factory_raised # None =>
          /\ response_parser # StrV("json")
          /\ parser = None
          /\ record_result = NotRun
          /\ record_raised = None
    /\ parser # None => parser.score_field \in KnownScoreFields
    /\ record_raised = None

====
